---- MODULE Spec2Model ----
(***************************************************************************)
(* A model of pdxdoc: the entry registry (Dossier) with its cross-reference*)
(* index, pagination, page construction, the SiteMapper, the syntax        *)
(* highlighter and DocStringSer.                                           *)
(*                                                                         *)
(* Conventions.                                                            *)
(*  - A Rust String is a sequence of character codes; its Ord is LexLess.  *)
(*  - An Option is a sequence of length 0 (None) or 1 (Some).              *)
(*  - A u64 produced by util::hash is a set of atoms: hash(k) = {k}, and   *)
(*    a ^ b is the symmetric difference.  This is xor on bit vectors with  *)
(*    every distinct hashed key owning one bit (hash taken as injective).  *)
(*    The bits of a raw integer n are the atoms <<0, i>>.                  *)
(***************************************************************************)
EXTENDS Integers, Sequences, FiniteSets, TLC

VARIABLES
    config,            \* Config: profiles, url_scheme, pagination, ...
    categories,        \* Dossier.categories: category id -> DocCategory
    entries,           \* Dossier.entries: entry id -> entry
    cross_references,  \* Dossier.cross_references: Seq(CrossReference)
    builders,          \* Dossier builders, in registration order
    last_call,         \* the most recent add_entries call and its Result
    added,             \* history: the entries add_entries took in, in order
    phase,             \* position of the driver (main.rs)
    pages,             \* SiteProfile.pages
    page_paths,        \* SiteMapper.page_paths: page id -> path
    page_groups,       \* SiteMapper.page_groups: page id -> group id
    groups,            \* SiteMapper.groups: group id -> Seq(<<page no, id>>)
    entry_pages,       \* SiteMapper.entry_pages: entry id -> page id
    entry_anchors,     \* SiteMapper.entry_anchors: entry id -> anchor
    page_profiles,     \* SiteMapper.page_profiles: page id -> profile id
    profiles,          \* SiteMapper.profiles: profile id -> Profile
    pg_in,             \* paginate: the arguments of the call
    pg_out,            \* paginate: the make_page calls, in call order
    site_profiles,     \* SiteGenerator.profiles: Seq(SiteProfile)
    written,           \* generate: the files written, in the order of writing
    hw,                \* HighlightedWriter: its fields and its output
    hw_last,           \* the latest Writer call, its Result, the calls so far
    braces,            \* history: per open frame, whether it wrote its "{ "
    ds                 \* DocStringSer::to_html: the segments and the outcome

vars == <<config, categories, entries, cross_references, builders, last_call,
          added, phase, pages, page_paths, page_groups, groups, entry_pages,
          entry_anchors, page_profiles, profiles, pg_in, pg_out,
          site_profiles, written, hw, hw_last, braces, ds>>

dossier_vars == <<categories, entries, cross_references, builders, last_call,
                  added>>
mapper_vars == <<page_paths, page_groups, groups, entry_pages, entry_anchors,
                 page_profiles, profiles>>
pg_vars == <<pg_in, pg_out>>
gen_vars == <<site_profiles, written>>
hw_vars == <<hw, hw_last, braces>>
util_vars == <<hw_vars, ds>>

None == <<>>
Some(x) == <<x>>
EmptyMap == [x \in {} |-> x]

(***************************************************************************)
(* Strings                                                                 *)
(***************************************************************************)
S_scope_ == <<115,99,111,112,101,95>>                 \* "scope_"
S_mask_ == <<109,97,115,107,95>>                      \* "mask_"
S_SCOPES == <<83,67,79,80,69,83>>                     \* "SCOPES"
S_MASKS == <<77,65,83,75,83>>                         \* "MASKS"
S_SCOPES_INDEX == <<83,67,79,80,69,83,95,73,78,68,69,88>>
S_MODIFIERS_INDEX == <<77,79,68,73,70,73,69,82,83,95,73,78,68,69,88>>
S_modifiers_ == <<109,111,100,105,102,105,101,114,115,95>>
S_modifiers == <<109,111,100,105,102,105,101,114,115>>  \* "modifiers"
S_scopes == <<115,99,111,112,101,115>>                \* "scopes"
S_index_html == <<105,110,100,101,120,46,104,116,109,108>>
S_html == <<104,116,109,108>>                         \* "html"
S__p == <<95,112>>                                    \* "_p"
S_Scope == <<83,99,111,112,101>>                      \* "Scope"
S_Mask == <<77,97,115,107>>                           \* "Mask"
S_Supported_Scopes == <<83,117,112,112,111,114,116,101,100,32,83,99,111,112,101,115>>
S_Supported_Targets == <<83,117,112,112,111,114,116,101,100,32,84,97,114,103,101,116,115>>
S_Expected_Scope == <<69,120,112,101,99,116,101,100,32,83,99,111,112,101>>
S_Effects == <<69,102,102,101,99,116,115>>            \* "Effects"
S_Triggers == <<84,114,105,103,103,101,114,115>>      \* "Triggers"
S_Modifiers == <<77,111,100,105,102,105,101,114,115>> \* "Modifiers"
S_OnActions == <<79,110,65,99,116,105,111,110,115>>   \* "OnActions"
S_effects == <<101,102,102,101,99,116,115>>           \* "effects"
S_triggers == <<116,114,105,103,103,101,114,115>>     \* "triggers"

\* <String as Ord>::lt: byte-wise lexicographic order.
RECURSIVE LexLess(_, _)
LexLess(a, b) ==
    IF b = <<>> THEN FALSE
    ELSE IF a = <<>> THEN TRUE
    ELSE IF Head(a) # Head(b) THEN Head(a) < Head(b)
    ELSE LexLess(Tail(a), Tail(b))

LexLeq(a, b) == a = b \/ LexLess(a, b)

\* slice::sort / sort_by_key: a stable sort on the key that the function `key`
\* gives each element.  InsertSorted puts x behind every element whose key is
\* not greater than x's.
RECURSIVE InsertSorted(_, _, _)
InsertSorted(x, s, key) ==
    IF s = <<>> THEN <<x>>
    ELSE IF LexLess(key[x], key[Head(s)]) THEN <<x>> \o s
    ELSE <<Head(s)>> \o InsertSorted(x, Tail(s), key)

RECURSIVE StableSort(_, _)
StableSort(s, key) ==
    IF s = <<>> THEN <<>>
    ELSE InsertSorted(s[Len(s)], StableSort(SubSeq(s, 1, Len(s) - 1), key), key)

\* char::to_uppercase on the ASCII range.
to_uppercase(c) == IF c >= 97 /\ c <= 122 THEN c - 32 ELSE c

\* util::humanize_camel_case: the loop body, with the make_upper flag.
RECURSIVE humanize_loop(_, _)
humanize_loop(text, make_upper) ==
    IF text = <<>> THEN <<>>
    ELSE IF make_upper
         THEN <<to_uppercase(Head(text))>> \o humanize_loop(Tail(text), FALSE)
    ELSE IF Head(text) = 95
         THEN <<32>> \o humanize_loop(Tail(text), TRUE)
    ELSE <<Head(text)>> \o humanize_loop(Tail(text), FALSE)

humanize_camel_case(text) == humanize_loop(text, TRUE)

\* util::hash and u64 xor (see the conventions above).
hash(key) == {key}
Xor(a, b) == (a \ b) \cup (b \ a)

\* The decimal text of a hash value, as format!("{}", id) prints it: one text
\* per value.
RECURSIVE fmt_u64(_)
fmt_u64(id) ==
    IF id = {} THEN <<>>
    ELSE LET a == CHOOSE x \in id : \A y \in id : x = y \/ LexLess(x, y)
         IN  a \o fmt_u64(id \ {a})

RangeOf(s) == {s[i] : i \in DOMAIN s}

(***************************************************************************)
(* Inputs: what the script-doc parser and the game provider hand over      *)
(***************************************************************************)
S_Input_Scopes == <<73,110,112,117,116,32,83,99,111,112,101,115>>
S_Output_Scopes == <<79,117,116,112,117,116,32,83,99,111,112,101,115>>
S_co == <<99,111>>    \* "co"
S_st == <<115,116>>   \* "st"
S_tx == <<116,120>>   \* "tx"
S_lx == <<108,120>>   \* "lx"
S_zz == <<122,122>>   \* "zz": interned, but no scope of docs.scopes()

\* StringTable: integer id -> interned string.
StringTable == <<S_co, S_st, S_tx, S_lx, S_zz>>
\* docs.scopes() and docs.masks(): string-table ids.
Scopes == <<2, 1>>
Masks == <<3, 4>>

\* DocCategory::new.
DocCategory_new(tag, name, display_name) ==
    [id |-> hash(tag), name |-> name, display_name |-> display_name,
     entries |-> <<>>]

\* GameDocProvider::get_categories; "OnActions" stands for a category the
\* provider does not register.
ProviderCategories ==
    { DocCategory_new(S_Effects, S_effects, S_Effects),
      DocCategory_new(S_Triggers, S_triggers, S_Triggers),
      DocCategory_new(S_Modifiers, S_modifiers, S_Modifiers) }

\* ScriptDocEntry::id_for_name: the id the parser gives an entry.
ScriptDocEntry_id_for_name(category, name) == hash(category \o <<47>> \o name)

\* A parsed entry.  content is an Option; a and b are the two lists of
\* string-table ids of the content variant (scopes/targets, input/output,
\* <<mask>>, <<expected_scope>>).
ScriptDocEntry(category, name, content) ==
    [kind |-> "script", id |-> ScriptDocEntry_id_for_name(category, name),
     category |-> category, name |-> name, content |-> content]

Content(variant, a, b) == Some([variant |-> variant, a |-> a, b |-> b])

\* EmptyDocEntry::new.
EmptyDocEntry_new(id, category_id, name) ==
    [kind |-> "empty", id |-> id, category |-> fmt_u64(category_id),
     name |-> name, content |-> None]

(***************************************************************************)
(* Dossier                                                                 *)
(***************************************************************************)
\* A mutant of category_id: a modifier declares its category like any entry.
category_id_of_any(entry) ==
    IF entry.kind = "empty" THEN None ELSE Some(hash(entry.category))

\* DocEntry::category_id.
category_id(entry) ==
    IF entry.kind = "empty" THEN None
    ELSE IF entry.category = S_Modifiers THEN None
    ELSE Some(hash(entry.category))

\* ScopeDocEntry::id_from_name / ScopePage::entry_id_for_name.
ScopeDocEntry_id_from_name(name) == hash(S_scope_ \o name)
\* MaskPage::entry_id_for_name.
MaskPage_entry_id_for_name(name) == hash(S_mask_ \o name)

\* A mutant of add_reference: the edge is recorded backwards.
add_reference_swapped(xrefs, prop, this_id, that_id) ==
    Append(xrefs, [from_id |-> that_id, from_property |-> prop, to_id |-> this_id])

\* Dossier::add_reference.
add_reference(xrefs, prop, this_id, that_id) ==
    Append(xrefs, [from_id |-> this_id, from_property |-> prop, to_id |-> that_id])

\* Dossier::add_scope_reference.
add_scope_reference(xrefs, prop, this_id, scope) ==
    add_reference(xrefs, prop, this_id, ScopeDocEntry_id_from_name(StringTable[scope]))

\* Dossier::add_mask_reference.
add_mask_reference(xrefs, prop, this_id, mask) ==
    add_reference(xrefs, prop, this_id, MaskPage_entry_id_for_name(StringTable[mask]))

\* for s in list { dossier.add_scope_reference(prop, self.id, *s) }
RECURSIVE add_scope_references(_, _, _, _)
add_scope_references(xrefs, prop, this_id, list) ==
    IF list = <<>> THEN xrefs
    ELSE add_scope_references(add_scope_reference(xrefs, prop, this_id, Head(list)),
                              prop, this_id, Tail(list))

\* <ScriptDocEntry as DocEntry>::record_cross_references (and the empty one of
\* EmptyDocEntry).
record_cross_references(entry, xrefs) ==
    IF entry.content = None THEN xrefs
    ELSE LET c == entry.content[1] IN
         CASE c.variant = "CustomLocalization" ->
                add_scope_reference(xrefs, S_Scope, entry.id, c.a[1])
           [] c.variant \in {"Effects", "Triggers"} ->
                add_scope_references(
                    add_scope_references(xrefs, S_Supported_Scopes, entry.id, c.a),
                    S_Supported_Targets, entry.id, c.b)
           [] c.variant = "EventTargets" ->
                add_scope_references(
                    add_scope_references(xrefs, S_Input_Scopes, entry.id, c.a),
                    S_Output_Scopes, entry.id, c.b)
           [] c.variant = "Modifiers" ->
                add_mask_reference(xrefs, S_Mask, entry.id, c.a[1])
           [] c.variant = "OnActions" ->
                add_scope_reference(xrefs, S_Expected_Scope, entry.id, c.a[1])

\* The Dossier fields add_entries works on.
DossierOf(cats, ents, xrefs) ==
    [categories |-> cats, entries |-> ents, cross_references |-> xrefs]

\* A mutant of add_entry: the cross-references are recorded before the
\* category is looked up, so a failing entry leaves its edges behind.
add_entry_refs_first(d, entry) ==
    LET cid == category_id(entry)
        xr == record_cross_references(entry, d.cross_references)
    IN  IF cid # None /\ cid[1] \notin DOMAIN d.categories
        THEN [ok |-> FALSE, d |-> DossierOf(d.categories, d.entries, xr)]
        ELSE [ok |-> TRUE,
              d |-> DossierOf(
                  IF cid = None THEN d.categories
                  ELSE [d.categories EXCEPT ![cid[1]].entries = Append(@, entry.id)],
                  (entry.id :> entry) @@ d.entries, xr)]

\* A mutant of add_entry: the entry joins its category and its edges are
\* recorded, but it is not put into the entry map.
add_entry_not_inserted(d, entry) ==
    LET cid == category_id(entry) IN
    IF cid # None /\ cid[1] \notin DOMAIN d.categories
    THEN [ok |-> FALSE, d |-> d]
    ELSE [ok |-> TRUE,
          d |-> DossierOf(
              IF cid = None THEN d.categories
              ELSE [d.categories EXCEPT ![cid[1]].entries = Append(@, entry.id)],
              d.entries,
              record_cross_references(entry, d.cross_references))]

\* The body of the loop of Dossier::add_entries for one entry: the category
\* lookup (an entry that declares none skips it), then
\* record_cross_references, then entries.insert.
add_entry(d, entry) ==
    LET cid == category_id(entry) IN
    IF cid # None /\ cid[1] \notin DOMAIN d.categories
    THEN [ok |-> FALSE, d |-> d]
    ELSE [ok |-> TRUE,
          d |-> DossierOf(
              IF cid = None THEN d.categories
              ELSE [d.categories EXCEPT ![cid[1]].entries = Append(@, entry.id)],
              (entry.id :> entry) @@ d.entries,
              record_cross_references(entry, d.cross_references))]

\* Dossier::add_entries: the loop, left at the first error.
RECURSIVE add_entries_from(_, _, _)
add_entries_from(d, batch, i) ==
    IF i > Len(batch) THEN [d |-> d, result |-> "Ok", at |-> 0]
    ELSE LET r == add_entry(d, batch[i]) IN
         IF r.ok THEN add_entries_from(r.d, batch, i + 1)
         ELSE [d |-> r.d, result |-> "Err", at |-> i]

add_entries(d, batch) == add_entries_from(d, batch, 1)

\* Dossier::new as main.rs calls it: the provider's categories, nothing else.
Dossier_new ==
    DossierOf([id \in {c.id : c \in ProviderCategories} |->
                  CHOOSE c \in ProviderCategories : c.id = id],
              EmptyMap, <<>>)

ThisDossier == DossierOf(categories, entries, cross_references)

\* P::category_id and P::entry_id_for_name of the two GenericListPage kinds.
GenericListPage_category_id(kind) ==
    IF kind = "ScopePage" THEN hash(S_SCOPES) ELSE hash(S_MASKS)
GenericListPage_entry_id_for_name(kind, name) ==
    IF kind = "ScopePage" THEN hash(S_scope_ \o name)
    ELSE MaskPage_entry_id_for_name(name)

\* GenericListPageBuilder::build_entries.
build_entries(builder) ==
    [i \in DOMAIN builder.items |->
        EmptyDocEntry_new(
            GenericListPage_entry_id_for_name(builder.kind, StringTable[builder.items[i]]),
            GenericListPage_category_id(builder.kind),
            StringTable[builder.items[i]])]

\* Dossier::add_builder: the entries the builder makes go into the registry.
RECURSIVE insert_all(_, _)
insert_all(ents, list) ==
    IF list = <<>> THEN ents
    ELSE insert_all((Head(list).id :> Head(list)) @@ ents, Tail(list))


(***************************************************************************)
(* Paths (std::path) on strings; only relative paths occur                 *)
(***************************************************************************)
\* The text before the first '/' and the text behind it.
RECURSIVE split_first(_, _)
split_first(s, acc) ==
    IF s = <<>> THEN <<acc, <<>>>>
    ELSE IF Head(s) = 47 THEN <<acc, Tail(s)>>
    ELSE split_first(Tail(s), Append(acc, Head(s)))

\* Path::components: the segments between separators; empty segments and
\* "." are dropped.
RECURSIVE components(_)
components(s) ==
    IF s = <<>> THEN <<>>
    ELSE LET f == split_first(s, <<>>) IN
         IF f[1] = <<>> \/ f[1] = <<46>> THEN components(f[2])
         ELSE <<f[1]>> \o components(f[2])

\* The path that a sequence of components spells.
RECURSIVE join_components(_)
join_components(cs) ==
    IF cs = <<>> THEN <<>>
    ELSE IF Len(cs) = 1 THEN cs[1]
    ELSE cs[1] \o <<47>> \o join_components(Tail(cs))

\* PathBuf::push.
path_push(base, p) ==
    IF p # <<>> /\ Head(p) = 47 THEN p
    ELSE IF base = <<>> THEN p
    ELSE IF base[Len(base)] = 47 THEN base \o p
    ELSE base \o <<47>> \o p

\* The index of the last '.' of a file name, 0 when it has none.
last_dot(name) ==
    LET dots == {i \in DOMAIN name : name[i] = 46}
    IN  IF dots = {} THEN 0 ELSE CHOOSE i \in dots : \A j \in dots : j <= i

\* Path::file_stem: the file name up to its last '.', a leading '.' not
\* counting.
file_stem(name) ==
    IF last_dot(name) <= 1 THEN name ELSE SubSeq(name, 1, last_dot(name) - 1)

\* PathBuf::set_extension: replaces the extension of the file name, if the
\* path has a file name.
set_extension(path, ext) ==
    LET cs == components(path) IN
    IF cs = <<>> \/ cs[Len(cs)] = <<46, 46>> THEN path
    ELSE join_components(
            SubSeq(cs, 1, Len(cs) - 1)
            \o <<file_stem(cs[Len(cs)]) \o <<46>> \o ext>>)

\* Path::file_name, an Option.
file_name(path) ==
    LET cs == components(path) IN
    IF cs = <<>> \/ cs[Len(cs)] = <<46, 46>> THEN None ELSE Some(cs[Len(cs)])

\* Path::parent(...).unwrap_or(""), as components.
parent_components(path) ==
    LET cs == components(path) IN
    IF cs = <<>> THEN <<>> ELSE SubSeq(cs, 1, Len(cs) - 1)

\* pathdiff::diff_paths(path, base) on relative paths, as components; None
\* when base holds a ".." that the walk reaches.
RECURSIVE diff_loop(_, _, _)
diff_loop(a, b, comps) ==
    IF a = <<>> /\ b = <<>> THEN Some(comps)
    ELSE IF b = <<>> THEN Some(comps \o a)
    ELSE IF a = <<>> THEN diff_loop(a, Tail(b), Append(comps, <<46, 46>>))
    ELSE IF comps = <<>> /\ Head(a) = Head(b) THEN diff_loop(Tail(a), Tail(b), comps)
    ELSE IF Head(b) = <<46, 46>> THEN None
    ELSE Some(comps \o [i \in 1..Len(b) |-> <<46, 46>>] \o a)

diff_paths(path, base) == diff_loop(path, base, <<>>)

(***************************************************************************)
(* Pagination                                                              *)
(***************************************************************************)
\* The pagination floor MaskPage::new passes.
MaskMinItems == 4

PaginationNone == [mode |-> "None", limit |-> 0]
PaginationAbsolute(limit) == [mode |-> "Absolute", limit |-> limit]

\* A mutant of chunks: the last, shorter chunk is dropped (chunks_exact).
RECURSIVE chunks_exact(_, _)
chunks_exact(items, n) ==
    IF Len(items) < n THEN <<>>
    ELSE <<SubSeq(items, 1, n)>> \o chunks_exact(SubSeq(items, n + 1, Len(items)), n)

\* slice::chunks(n), n >= 1.
RECURSIVE chunks(_, _)
chunks(items, n) ==
    IF items = <<>> THEN <<>>
    ELSE IF Len(items) <= n THEN <<items>>
    ELSE <<SubSeq(items, 1, n)>> \o chunks(SubSeq(items, n + 1, Len(items)), n)

\* The total page count handed to make_page: ceil(n / limit).
num_pages_of(n, limit) == (n + limit - 1) \div limit

\* A mutant of below_minimum: the floor is ignored.
below_minimum_never(minimum, items) == FALSE

\* The pagination floor: a list shorter than `minimum` is not paginated.
below_minimum(minimum, items) == Len(items) < minimum

\* util::paginate(mode, minimum, items, make_page): the arguments of the
\* make_page calls, in call order.
paginate(mode, minimum, items) ==
    IF mode.mode = "None" \/ below_minimum(minimum, items)
    THEN <<[num_pages |-> 1, chunk |-> items]>>
    ELSE LET cs == chunks(items, mode.limit) IN
         [i \in DOMAIN cs |->
            [num_pages |-> num_pages_of(Len(items), mode.limit), chunk |-> cs[i]]]


(***************************************************************************)
(* Pages                                                                   *)
(***************************************************************************)
\* Dossier::find_references_to: the from_id of every edge to `id`, in the
\* order of the cross-reference list.
find_references_to(d, id) ==
    LET To(c) == c.to_id = id
        hits == SelectSeq(d.cross_references, To)
    IN  [i \in DOMAIN hits |-> hits[i].from_id]

\* The names of the registered entries, the key of the sorts by name.
NameOf(d) == [id \in DOMAIN d.entries |-> d.entries[id].name]

\* format!("{}", n) of a usize.
RECURSIVE fmt_usize(_)
fmt_usize(n) ==
    IF n < 10 THEN <<48 + n>> ELSE fmt_usize(n \div 10) \o <<48 + (n % 10)>>

\* The bits of a raw integer, as atoms of a u64.
Bits(n) == {<<0, i>> : i \in {j \in 0..15 : (n \div (2 ^ j)) % 2 = 1}}

NoCategory == DocCategory_new(<<>>, <<>>, <<>>)
PaginationInfo_new(current_page, total_pages) ==
    [current_page |-> current_page, total_pages |-> total_pages]

\* The page structs, in one record shape.  `entries` is
\* CategoryListPage.entries, MaskPage.modifiers and IndexPage.entries.
\* CategoryListPage::new.
CategoryListPage_new(category, ents, current_page, total_pages) ==
    [kind |-> "CategoryList", id |-> {}, entry_id |-> {}, name |-> <<>>,
     category |-> category, entries |-> ents,
     page |-> PaginationInfo_new(current_page, total_pages),
     path |-> <<>>, title |-> <<>>]

\* ScopePage::new.
ScopePage_new(id, entry_id, name) ==
    << [kind |-> "Scope", id |-> id, entry_id |-> entry_id, name |-> name,
        category |-> NoCategory, entries |-> <<>>,
        page |-> PaginationInfo_new(0, 0), path |-> <<>>, title |-> <<>>] >>

\* MaskPage::new: the modifiers that reference the mask, sorted by name and
\* paginated with the floor; the closure numbers the pages as it is called.
MaskPage_new(d, cfg, id, entry_id, name) ==
    LET modifiers == StableSort(find_references_to(d, entry_id), NameOf(d))
        calls == paginate(cfg.pagination, MaskMinItems, modifiers)
    IN  [i \in DOMAIN calls |->
            [kind |-> "Mask", id |-> id, entry_id |-> entry_id, name |-> name,
             category |-> NoCategory, entries |-> calls[i].chunk,
             page |-> PaginationInfo_new(i, calls[i].num_pages),
             path |-> <<>>, title |-> <<>>]]

\* ScopePage::index_page and MaskPage::index_page.
index_page(kind, entry_ids) ==
    [kind |-> "Index",
     id |-> IF kind = "ScopePage" THEN hash(S_SCOPES_INDEX)
            ELSE hash(S_MODIFIERS_INDEX),
     entry_id |-> {}, name |-> <<>>, category |-> NoCategory,
     entries |-> [i \in DOMAIN entry_ids |-> entry_ids[i].id],
     page |-> PaginationInfo_new(0, 0),
     path |-> (IF kind = "ScopePage" THEN S_scopes ELSE S_modifiers)
              \o <<47>> \o S_index_html,
     title |-> IF kind = "ScopePage" THEN <<83,99,111,112,101,115>>
               ELSE S_Modifiers]

\* A mutant of MaskPage_entries: no page owns the mask's entry.
MaskPage_entries_chunk_only(p) == p.entries

\* A mutant of MaskPage_entries: every page of the mask owns the mask's entry.
MaskPage_entries_all_pages(p) == Append(p.entries, p.entry_id)

\* MaskPage::entries.
MaskPage_entries(p) ==
    IF p.page.current_page = 1 THEN Append(p.entries, p.entry_id) ELSE p.entries

\* Page::entries.
Page_entries(p) ==
    CASE p.kind = "CategoryList" -> p.entries
      [] p.kind = "Index" -> <<>>
      [] p.kind = "Scope" -> <<p.entry_id>>
      [] p.kind = "Mask" -> MaskPage_entries(p)

\* Page::page_url.
Page_page_url(p, n) ==
    CASE p.kind = "CategoryList" -> p.category.name \o S__p \o fmt_usize(n)
      [] p.kind = "Index" -> p.path
      [] p.kind = "Scope" -> S_scopes \o <<47>> \o p.name
      [] p.kind = "Mask" ->
            S_modifiers \o <<47>> \o p.name \o S__p \o fmt_usize(n)

\* A mutant of Page_info: page 1 of a split category has the bare name as
\* path.
Page_info_bare_first(p) ==
    CASE p.kind = "CategoryList" ->
            [short_title |-> p.category.display_name,
             path |-> IF p.page.current_page = 1 THEN p.category.name
                      ELSE Page_page_url(p, p.page.current_page),
             pagination |-> Some(p.page)]
      [] p.kind = "Index" ->
            [short_title |-> p.title, path |-> p.path, pagination |-> None]
      [] p.kind = "Scope" ->
            [short_title |-> p.name, path |-> S_scopes \o <<47>> \o p.name,
             pagination |-> None]
      [] p.kind = "Mask" ->
            [short_title |-> p.name,
             path |-> IF p.page.total_pages = 1
                      THEN S_modifiers \o <<47>> \o p.name
                      ELSE Page_page_url(p, p.page.current_page),
             pagination |-> Some(p.page)]

\* Page::info: the fields the mapper reads.
Page_info(p) ==
    CASE p.kind = "CategoryList" ->
            [short_title |-> p.category.display_name,
             path |-> IF p.page.total_pages = 1 THEN p.category.name
                      ELSE Page_page_url(p, p.page.current_page),
             pagination |-> Some(p.page)]
      [] p.kind = "Index" ->
            [short_title |-> p.title, path |-> p.path, pagination |-> None]
      [] p.kind = "Scope" ->
            [short_title |-> p.name, path |-> S_scopes \o <<47>> \o p.name,
             pagination |-> None]
      [] p.kind = "Mask" ->
            [short_title |-> p.name,
             path |-> IF p.page.total_pages = 1
                      THEN S_modifiers \o <<47>> \o p.name
                      ELSE Page_page_url(p, p.page.current_page),
             pagination |-> Some(p.page)]

\* What #[derive(Hash)] feeds the hasher for a u64: the value, here the list
\* of its atoms, each with its length.
RECURSIVE u64_key(_)
u64_key(id) ==
    IF id = {} THEN <<0>>
    ELSE LET a == CHOOSE x \in id : \A y \in id : x = y \/ LexLess(x, y)
         IN  <<Len(a)>> \o a \o u64_key(id \ {a})

\* What #[derive(Hash)] feeds the hasher for a DocCategory: the fields id,
\* name, display_name and entries, in the order of the struct.
DocCategory_key(c) ==
    LET ents[i \in 0..Len(c.entries)] ==
            IF i = 0 THEN <<>> ELSE ents[i - 1] \o u64_key(c.entries[i])
    IN  <<1>> \o u64_key(c.id) \o <<Len(c.name)>> \o c.name
        \o <<Len(c.display_name)>> \o c.display_name
        \o <<Len(c.entries)>> \o ents[Len(c.entries)]

\* A mutant of Page_id: the page number does not enter the id.
Page_id_without_page(p) ==
    CASE p.kind = "CategoryList" -> hash(DocCategory_key(p.category))
      [] OTHER -> p.id

\* A mutant of Page_id: the id of a mask page is the id of its mask.
Page_id_of_mask(p) ==
    CASE p.kind = "CategoryList" ->
            Xor(hash(DocCategory_key(p.category)),
                hash(<<2, p.page.current_page>>))
      [] OTHER -> p.id

\* Page::id.  hash(&self.category) has the key DocCategory_key, and
\* hash(&current_page) the key <<2, current_page>>.
Page_id(p) ==
    CASE p.kind = "CategoryList" ->
            Xor(hash(DocCategory_key(p.category)),
                hash(<<2, p.page.current_page>>))
      [] p.kind = "Mask" -> Xor(p.id, Bits(p.page.current_page))
      [] OTHER -> p.id

\* Page::group_id.
Page_group_id(p) ==
    CASE p.kind = "CategoryList" -> hash(p.category.name)
      [] p.kind = "Index" -> p.id
      [] p.kind = "Scope" -> GenericListPage_category_id("ScopePage")
      [] p.kind = "Mask" -> hash(S_modifiers_ \o p.name)

\* A mutant of Page_parent_id: the parent of a list page is named by the
\* category id of its kind, which is the id of no page.
Page_parent_id_category(p) ==
    CASE p.kind = "CategoryList" -> None
      [] p.kind = "Index" -> None
      [] p.kind = "Scope" -> Some(GenericListPage_category_id("ScopePage"))
      [] p.kind = "Mask" -> Some(GenericListPage_category_id("MaskPage"))

\* Page::parent_id.
Page_parent_id(p) ==
    CASE p.kind = "CategoryList" -> None
      [] p.kind = "Index" -> None
      [] p.kind = "Scope" -> Some(hash(S_SCOPES_INDEX))
      [] p.kind = "Mask" -> Some(hash(S_MODIFIERS_INDEX))

\* Page::anchors: CategoryListPage lists the whole category.
Page_anchors(d, p) ==
    IF p.kind = "CategoryList"
    THEN [i \in DOMAIN p.category.entries |->
            <<p.category.entries[i], d.entries[p.category.entries[i]].name>>]
    ELSE <<>>

\* GenericListPageBuilder::build_pages: the detail pages in the order of the
\* names, then the index page.
build_pages(d, cfg, builder) ==
    LET made == build_entries(builder)
        key == [i \in DOMAIN made |-> made[i].name]
        order == StableSort([i \in DOMAIN made |-> i], key)
        entry_ids == [i \in DOMAIN order |-> made[order[i]]]
        page_id(e) == hash(fmt_u64(GenericListPage_category_id(builder.kind))
                           \o <<95>> \o fmt_u64(e.id))
        new(e) == IF builder.kind = "ScopePage"
                  THEN ScopePage_new(page_id(e), e.id, e.name)
                  ELSE MaskPage_new(d, cfg, page_id(e), e.id, e.name)
        flat[i \in 0..Len(entry_ids)] ==
            IF i = 0 THEN <<>> ELSE flat[i - 1] \o new(entry_ids[i])
    IN  Append(flat[Len(entry_ids)], index_page(builder.kind, entry_ids))

\* The category listing pages of one category: its entries sorted by name and
\* paginated.
category_pages(d, cfg, category) ==
    LET sorted == StableSort(category.entries, NameOf(d))
        calls == paginate(cfg.pagination, 0, sorted)
    IN  [i \in DOMAIN calls |->
            CategoryListPage_new(category, calls[i].chunk, i, calls[i].num_pages)]

\* Dossier::create_pages: the pages of every category, in the order the
\* HashMap yields the categories (cat_order), then the builders' pages.
create_pages(d, cfg, blds, cat_order) ==
    LET cats[i \in 0..Len(cat_order)] ==
            IF i = 0 THEN <<>>
            ELSE cats[i - 1] \o category_pages(d, cfg, d.categories[cat_order[i]])
        built[i \in 0..Len(blds)] ==
            IF i = 0 THEN <<>> ELSE built[i - 1] \o build_pages(d, cfg, blds[i])
    IN  cats[Len(cat_order)] \o built[Len(blds)]


(***************************************************************************)
(* SiteMapper                                                              *)
(***************************************************************************)
Put(map, k, v) == (k :> v) @@ map

\* SiteMapper::new.
SiteMapper_new ==
    [page_paths |-> EmptyMap, page_groups |-> EmptyMap, groups |-> EmptyMap,
     entry_pages |-> EmptyMap, entry_anchors |-> EmptyMap,
     page_profiles |-> EmptyMap, profiles |-> EmptyMap]

ThisMapper ==
    [page_paths |-> page_paths, page_groups |-> page_groups, groups |-> groups,
     entry_pages |-> entry_pages, entry_anchors |-> entry_anchors,
     page_profiles |-> page_profiles, profiles |-> profiles]

\* for id in page.entries() { self.entry_pages.insert(id, page_id) }
RECURSIVE insert_entry_pages(_, _, _)
insert_entry_pages(map, ids, page_id) ==
    IF ids = <<>> THEN map
    ELSE insert_entry_pages(Put(map, Head(ids), page_id), Tail(ids), page_id)

\* for (id, anchor) in page.anchors() { self.entry_anchors.insert(id, anchor) }
RECURSIVE insert_anchors(_, _)
insert_anchors(map, list) ==
    IF list = <<>> THEN map
    ELSE insert_anchors(Put(map, Head(list)[1], Head(list)[2]), Tail(list))

\* The body of the loop of SiteMapper::record_profile for one page.
record_page(m, cfg, profile, d, page) ==
    LET info == Page_info(page)
        page_id == Page_id(page)
        base == IF Len(cfg.profiles) > 1 \/ cfg.use_subfolder_for_single_profile
                THEN profile.name ELSE <<>>
        path == set_extension(path_push(base, info.path), S_html)
        disk == path_push(cfg.output_dir, path)
        group_id == Page_group_id(page)
        group == IF group_id \in DOMAIN m.groups THEN m.groups[group_id] ELSE <<>>
    IN  [page_paths |-> Put(m.page_paths, page_id, [disk |-> disk, path |-> path]),
         page_groups |-> IF info.pagination # None
                         THEN Put(m.page_groups, page_id, group_id)
                         ELSE m.page_groups,
         groups |-> IF info.pagination # None
                    THEN Put(m.groups, group_id,
                             Append(group, <<info.pagination[1].current_page, page_id>>))
                    ELSE m.groups,
         entry_pages |-> insert_entry_pages(m.entry_pages, Page_entries(page), page_id),
         entry_anchors |-> insert_anchors(m.entry_anchors, Page_anchors(d, page)),
         page_profiles |-> Put(m.page_profiles, page_id, hash(profile.name)),
         profiles |-> m.profiles]

\* SiteMapper::record_profile.
RECURSIVE record_pages(_, _, _, _, _)
record_pages(m, cfg, profile, d, pgs) ==
    IF pgs = <<>> THEN m
    ELSE record_pages(record_page(m, cfg, profile, d, Head(pgs)),
                      cfg, profile, d, Tail(pgs))

record_profile(m, cfg, profile, d, pgs) ==
    record_pages([m EXCEPT !.profiles = Put(@, hash(profile.name), profile)],
                 cfg, profile, d, pgs)

\* A mutant of url_from: the diff is taken from the destination to the source.
url_from_backwards(source, dest) ==
    LET filename == file_name(dest)
        diff == diff_paths(parent_components(source), parent_components(dest))[1]
        joined == join_components(
                    IF filename # None THEN Append(diff, filename[1]) ELSE diff)
    IN  [i \in DOMAIN joined |-> IF joined[i] = 92 THEN 47 ELSE joined[i]]

\* SiteMapper::url_from.
url_from(source, dest) ==
    LET filename == file_name(dest)
        diff == diff_paths(parent_components(dest), parent_components(source))[1]
        joined == join_components(
                    IF filename # None THEN Append(diff, filename[1]) ELSE diff)
    IN  [i \in DOMAIN joined |-> IF joined[i] = 92 THEN 47 ELSE joined[i]]

\* The unwraps of SiteMapper::url_for_entry all find their key.
url_for_entry_ok(m, cfg, from_id, to_id) ==
    /\ to_id \in DOMAIN m.entry_pages
    /\ m.entry_pages[to_id] \in DOMAIN m.page_paths
    /\ cfg.url_scheme.scheme = "Relative" =>
        /\ from_id \in DOMAIN m.entry_pages
        /\ m.entry_pages[from_id] \in DOMAIN m.page_paths

\* SiteMapper::url_for_entry.
url_for_entry(m, cfg, from_id, to_id) ==
    LET to_path == m.page_paths[m.entry_pages[to_id]]
        url == IF cfg.url_scheme.scheme = "Relative"
               THEN url_from(m.page_paths[m.entry_pages[from_id]].path, to_path.path)
               ELSE cfg.url_scheme.base_url \o to_path.path
    IN  IF to_id \in DOMAIN m.entry_anchors
        THEN url \o <<35>> \o m.entry_anchors[to_id]
        ELSE url

\* The unwraps of SiteMapper::page_to_entry_url all find their key.
page_to_entry_url_ok(m, from_page, to_entry) ==
    /\ from_page \in DOMAIN m.page_paths
    /\ to_entry \in DOMAIN m.entry_pages
    /\ m.entry_pages[to_entry] \in DOMAIN m.page_paths

\* SiteMapper::page_to_entry_url.
page_to_entry_url(m, from_page, to_entry) ==
    url_from(m.page_paths[from_page].path,
             m.page_paths[m.entry_pages[to_entry]].path)

(***************************************************************************)
(* Cross-reference collation                                               *)
(***************************************************************************)
\* A mutant of link_for_entry: an id without an entry is linked all the same.
link_for_entry_always(d, m, cfg, from, name, id) ==
    [kind |-> "Link", contents |-> name,
     url |-> IF id \in DOMAIN d.entries
             THEN url_for_entry(m, cfg, from.id, d.entries[id].id) ELSE <<>>]

\* Dossier::link_for_entry: a Link to a registered entry, else plain Text.
link_for_entry(d, m, cfg, from, name, id) ==
    IF id \in DOMAIN d.entries
    THEN [kind |-> "Link", contents |-> name,
          url |-> url_for_entry(m, cfg, from.id, d.entries[id].id)]
    ELSE [kind |-> "Text", contents |-> name, url |-> <<>>]

\* Dossier::add_ref_link: groups is group name -> property name -> links.
add_ref_link(d, m, cfg, grps, entry, other_id, prop) ==
    LET other == d.entries[other_id]
        group_name == d.categories[category_id(other)[1]].display_name
        group == IF group_name \in DOMAIN grps THEN grps[group_name] ELSE EmptyMap
        prop_name == humanize_camel_case(prop)
        property == IF prop_name \in DOMAIN group THEN group[prop_name] ELSE <<>>
        link == link_for_entry(d, m, cfg, entry, other.name, other.id)
    IN  Put(grps, group_name, Put(group, prop_name, Append(property, link)))

\* The elements of a set in some order, as HashMap::keys yields them.
RECURSIVE SeqOfSet(_)
SeqOfSet(S) ==
    IF S = {} THEN <<>>
    ELSE LET x == CHOOSE y \in S : TRUE IN <<x>> \o SeqOfSet(S \ {x})

Reverse(s) == [i \in DOMAIN s |-> s[Len(s) + 1 - i]]

\* A mutant of sorted_names: the names come out in descending order.
sorted_names_descending(S) == Reverse(StableSort(SeqOfSet(S), [x \in S |-> x]))

\* names.sort() of the keys of a map.
sorted_names(S) == StableSort(SeqOfSet(S), [x \in S |-> x])

\* The derived Ord of DocStringSegment on links: contents, then url.
link_key(items) ==
    [l \in RangeOf(items) |-> l.contents \o <<0>> \o l.url]

\* A mutant of sort_links: the links stay in insertion order.
sort_links_not(items) == items

\* items.sort().
sort_links(items) == StableSort(items, link_key(items))

\* The second half of Dossier::collate_references: the groups by name, in
\* each the properties by name, in each the links sorted.
collate_groups(grps) ==
    LET group_names == sorted_names(DOMAIN grps)
    IN  [g \in DOMAIN group_names |->
            LET group == grps[group_names[g]]
                property_names == sorted_names(DOMAIN group)
            IN  [name |-> group_names[g],
                 properties |->
                    [q \in DOMAIN property_names |->
                        [name |-> property_names[q],
                         body |-> sort_links(group[property_names[q]])]]]]

\* Dossier::collate_references.
collate_references(d, m, cfg, item) ==
    LET entry == d.entries[item]
        To(c) == c.to_id = item
        hits == SelectSeq(d.cross_references, To)
        acc[i \in 0..Len(hits)] ==
            IF i = 0 THEN EmptyMap
            ELSE add_ref_link(d, m, cfg, acc[i - 1], entry,
                              hits[i].from_id, hits[i].from_property)
    IN  collate_groups(acc[Len(hits)])


(***************************************************************************)
(* Rendering: Page::data and the links it resolves                         *)
(***************************************************************************)
\* Dossier::link_for_scope.
link_for_scope(d, m, cfg, from, scope) ==
    LET name == StringTable[scope]
    IN  link_for_entry(d, m, cfg, from, name, ScopeDocEntry_id_from_name(name))

\* Dossier::link_for_mask.
link_for_mask(d, m, cfg, from, mask) ==
    LET name == StringTable[mask]
    IN  link_for_entry(d, m, cfg, from, name, MaskPage_entry_id_for_name(name))

\* The ids <ScriptDocEntry as DocEntry>::properties resolves, in the order of
\* the properties: string-table ids of scopes, or of the mask of a modifier.
property_refs(entry) ==
    IF entry.kind # "script" \/ entry.content = None THEN <<>>
    ELSE entry.content[1].a \o entry.content[1].b

\* <ScriptDocEntry as DocEntry>::properties: the link segments of the
\* properties (EmptyDocEntry has none).
properties(d, m, cfg, entry) ==
    LET refs == property_refs(entry)
    IN  [i \in DOMAIN refs |->
            IF entry.content[1].variant = "Modifiers"
            THEN link_for_mask(d, m, cfg, entry, refs[i])
            ELSE link_for_scope(d, m, cfg, entry, refs[i])]

\* The entry ids the properties of an entry name.
property_ids(entry) ==
    LET refs == property_refs(entry)
    IN  [i \in DOMAIN refs |->
            IF entry.content[1].variant = "Modifiers"
            THEN MaskPage_entry_id_for_name(StringTable[refs[i]])
            ELSE ScopeDocEntry_id_from_name(StringTable[refs[i]])]

\* Every unwrap on the way through collate_references(item) finds its key.
collate_references_ok(d, m, cfg, item) ==
    /\ item \in DOMAIN d.entries
    /\ \A k \in DOMAIN d.cross_references :
          d.cross_references[k].to_id = item =>
            LET other_id == d.cross_references[k].from_id IN
            /\ other_id \in DOMAIN d.entries
            /\ category_id(d.entries[other_id]) # None
            /\ category_id(d.entries[other_id])[1] \in DOMAIN d.categories
            /\ url_for_entry_ok(m, cfg, item, other_id)

\* Every unwrap on the way through Page::data finds its key.
Page_data_ok(d, m, cfg, p) ==
    CASE p.kind = "CategoryList" ->
            \A i \in DOMAIN p.entries :
                /\ p.entries[i] \in DOMAIN d.entries
                /\ LET e == d.entries[p.entries[i]]
                       ids == property_ids(e)
                   IN  \A j \in DOMAIN ids :
                          ids[j] \in DOMAIN d.entries =>
                             url_for_entry_ok(m, cfg, e.id, ids[j])
                /\ collate_references_ok(d, m, cfg, p.entries[i])
      [] p.kind = "Index" ->
            \A i \in DOMAIN p.entries :
                /\ p.entries[i] \in DOMAIN d.entries
                /\ page_to_entry_url_ok(m, p.id, p.entries[i])
      [] p.kind = "Scope" -> collate_references_ok(d, m, cfg, p.entry_id)
      [] p.kind = "Mask" ->
            \A i \in DOMAIN p.entries :
                /\ p.entries[i] \in DOMAIN d.entries
                /\ d.entries[p.entries[i]].kind = "script"
                /\ d.entries[p.entries[i]].content # None
                /\ d.entries[p.entries[i]].content[1].variant = "Modifiers"

\* Page::data: what the page hands the template, in one record shape.
Page_data(d, m, cfg, p) ==
    [items |->
        IF p.kind = "Index"
        THEN [i \in DOMAIN p.entries |->
                [kind |-> "Link", contents |-> d.entries[p.entries[i]].name,
                 url |-> page_to_entry_url(m, p.id, p.entries[i])]]
        ELSE <<>>,
     entries |->
        IF p.kind = "CategoryList"
        THEN [i \in DOMAIN p.entries |->
                LET e == d.entries[p.entries[i]] IN
                [name |-> e.name,
                 properties |-> properties(d, m, cfg, e),
                 cross_refs |-> collate_references(d, m, cfg, e.id)]]
        ELSE <<>>,
     cross_refs |->
        IF p.kind = "Scope" THEN collate_references(d, m, cfg, p.entry_id)
        ELSE <<>>,
     modifiers |->
        IF p.kind = "Mask"
        THEN [i \in DOMAIN p.entries |-> d.entries[p.entries[i]].name]
        ELSE <<>>]

\* The render loop of SiteGenerator::generate visits the pages of the profiles
\* in order: the profile and the page of the n-th visit.
RECURSIVE render_target(_, _, _)
render_target(profs, k, n) ==
    IF n <= Len(profs[k].pages) THEN [profile |-> k, page |-> n]
    ELSE render_target(profs, k + 1, n - Len(profs[k].pages))

RECURSIVE total_pages(_)
total_pages(profs) ==
    IF profs = <<>> THEN 0 ELSE Len(Head(profs).pages) + total_pages(Tail(profs))

\* A mutant of loop_done: generate() is called inside the loop over the
\* profiles.
loop_done_early(cfg, profs) == Len(profs) >= 1

\* main: the loop over config.profiles has added every profile.
loop_done(cfg, profs) == Len(profs) = Len(cfg.profiles)

(***************************************************************************)
(* SiteMap: the tree of the pages of a profile                             *)
(***************************************************************************)
\* The tree is a function from the path of a node (the keys from the root
\* down) to the node; the children of a node are the nodes one key longer.
S_index_dot == <<105,110,100,101,120,46>>    \* "index."
S_slash_index_html == <<47>> \o S_index_html \* "/index.html"

\* A mutant of starts_with: the whole string is compared.
starts_with_whole(str, prefix) == str = prefix

\* str::starts_with.
starts_with(str, prefix) ==
    Len(prefix) <= Len(str) /\ SubSeq(str, 1, Len(prefix)) = prefix

\* The SiteMap a missing child is created as.
SiteMap_child(key, page_id) ==
    [title |-> <<>>, key |-> key, page_ids |-> <<page_id>>,
     absolute_url |-> <<>>, page |-> None]

\* SiteMap::fill_from_path on the node at `at`.
RECURSIVE fill_from_path(_, _, _, _)
fill_from_path(t, at, comps, page) ==
    LET info == Page_info(page)
        pushed == Put(t, at, [t[at] EXCEPT !.page_ids = Append(@, Page_id(page))])
    IN  IF comps = <<>>
        THEN LET url == IF info.pagination # None
                           /\ info.pagination[1].total_pages > 1
                        THEN Page_page_url(page, 1) ELSE info.path
             IN  Put(t, at, [pushed[at] EXCEPT
                                !.title = info.short_title,
                                !.page = info.pagination,
                                !.absolute_url = set_extension(url, S_html)])
        ELSE LET first == Head(comps)
                 child == Append(at, first)
             IN  IF starts_with(first, S_index_dot)
                 THEN fill_from_path(pushed, at, Tail(comps), page)
                 ELSE IF child \in DOMAIN pushed
                 THEN fill_from_path(pushed, child, Tail(comps), page)
                 ELSE fill_from_path(
                        Put(pushed, child, SiteMap_child(first, Page_id(page))),
                        child, Tail(comps), page)

\* SiteMap::from_pages after the first n pages of the profile.
RECURSIVE SiteMap_from_first(_, _)
SiteMap_from_first(profile, n) ==
    IF n = 0
    THEN (<<>> :> [title |-> profile.profile.title, key |-> <<>>,
                   page_ids |-> <<>>, absolute_url |-> S_slash_index_html,
                   page |-> None])
    ELSE fill_from_path(SiteMap_from_first(profile, n - 1), <<>>,
                        components(Page_info(profile.pages[n]).path),
                        profile.pages[n])

\* SiteMap::from_pages.
SiteMap_from_pages(profile) == SiteMap_from_first(profile, Len(profile.pages))

(***************************************************************************)
(* Breadcrumbs                                                             *)
(***************************************************************************)
S_index == <<105,110,100,101,120>>    \* "index"

\* Breadcrumb::Single and Breadcrumb::Paged in one record shape: url is
\* absolute_url or root_url.
Breadcrumb_Single(title, absolute_url) ==
    [kind |-> "Single", title |-> title, url |-> absolute_url, page |-> None]
Breadcrumb_Paged(title, root_url, page) ==
    [kind |-> "Paged", title |-> title, url |-> root_url, page |-> Some(page)]
\* What stands for the panic of the unwrap in from_page_inner.
Breadcrumb_Panic == [kind |-> "Panic", title |-> <<>>, url |-> <<>>, page |-> None]

\* Breadcrumbs::ensure_html_on_url.
ensure_html_on_url(str) == set_extension(str, S_html)

\* profile.pages.iter().find(|p| p.id() == id): the first page with the id.
find_page(profile, id) ==
    LET hits == {i \in DOMAIN profile.pages : Page_id(profile.pages[i]) = id}
    IN  IF hits = {} THEN None
        ELSE Some(profile.pages[CHOOSE i \in hits : \A j \in hits : i <= j])

\* Breadcrumbs::from_page_inner.
RECURSIVE from_page_inner(_, _)
from_page_inner(page, profile) ==
    LET parent_id == Page_parent_id(page)
        parent == find_page(profile, parent_id[1])
        crumbs == IF parent_id = None THEN <<>>
                  ELSE IF parent = None THEN <<Breadcrumb_Panic>>
                  ELSE from_page_inner(parent[1], profile)
        page_info == Page_info(page)
        crumb == IF page_info.pagination # None
                    /\ page_info.pagination[1].total_pages > 1
                 THEN Breadcrumb_Paged(page_info.short_title,
                                       ensure_html_on_url(Page_page_url(page, 1)),
                                       page_info.pagination[1])
                 ELSE Breadcrumb_Single(page_info.short_title,
                                        ensure_html_on_url(page_info.path))
    IN  Append(crumbs, crumb)

\* Breadcrumbs::from_page.
Breadcrumbs_from_page(page, profile) ==
    <<Breadcrumb_Single(profile.profile.title, S_index)>>
    \o from_page_inner(page, profile)

(***************************************************************************)
(* Syntax highlighter (util/syntax_highlight.rs)                           *)
(*                                                                         *)
(* The writer's output is the sequence of the strings pushed onto it: a    *)
(* push is "<br/>" or one span, kept as its token class and its escaped    *)
(* text.  TextPosition only feeds the index carried by an error and is     *)
(* left out.  Pushing onto a String cannot fail, so only the functions     *)
(* that build an Error of their own return a Result here.                  *)
(***************************************************************************)
RECURSIVE repeat(_, _)
repeat(s, n) == IF n <= 0 THEN <<>> ELSE s \o repeat(s, n - 1)

\* handlebars::html_escape of one character.
escape_char(c) ==
    CASE c = 60 -> <<38,108,116,59>>            \* <  &lt;
      [] c = 62 -> <<38,103,116,59>>            \* >  &gt;
      [] c = 34 -> <<38,113,117,111,116,59>>    \* "  &quot;
      [] c = 38 -> <<38,97,109,112,59>>         \* &  &amp;
      [] c = 39 -> <<38,35,120,50,55,59>>       \* '  &#x27;
      [] c = 96 -> <<38,35,120,54,48,59>>       \* `  &#x60;
      [] c = 61 -> <<38,35,120,51,68,59>>       \* =  &#x3D;
      [] OTHER -> <<c>>

RECURSIVE html_escape(_)
html_escape(s) ==
    IF s = <<>> THEN <<>> ELSE escape_char(Head(s)) \o html_escape(Tail(s))

Br == [token |-> "br", text |-> <<>>]
Span(token, out) == [token |-> token, text |-> html_escape(out)]

HighlightFrame(collection, same_line) ==
    [collection |-> collection, same_line |-> same_line]

HighlightedWriter_new ==
    [output |-> <<>>, frames |-> <<>>, depth |-> -1, current_text |-> <<>>,
     started |-> FALSE, has_written_token |-> FALSE]

Done(w) == [w |-> w, result |-> "Ok"]
Failed(w, error) == [w |-> w, result |-> error]

write(w, out) == [w EXCEPT !.output = Append(@, out)]

write_span_for(w, token, out) == write(w, Span(token, out))

flush_text(w) ==
    IF w.current_text # <<>>
    THEN write_span_for([w EXCEPT !.current_text = <<>>], "Text", w.current_text)
    ELSE w

new_line(w) == write(flush_text(w), Br)

write_text(w, out) == [w EXCEPT !.current_text = @ \o out]

indent(w) ==
    IF w.depth < 0 THEN Failed(w, "WriterError")
    ELSE Done(write_text(w, repeat(<<32>>, w.depth * 4)))

write_nontext_unflushed(w, token, out) ==
    write_span_for([w EXCEPT !.has_written_token = TRUE], token, out)

write_nontext(w, token, out) ==
    write_span_for([flush_text(w) EXCEPT !.has_written_token = TRUE], token, out)

start_collection_brace_always(w, collection, same_line) ==
    LET w1 == write_text(w, <<123, 32>>)
        w2 == IF ~same_line THEN [w1 EXCEPT !.depth = @ + 1] ELSE w1
    IN  Done([w2 EXCEPT !.frames = Append(@, HighlightFrame(collection, same_line))])

start_collection_deeper(w, collection, same_line) ==
    LET w1 == IF w.depth >= 0 THEN write_text(w, <<123, 32>>) ELSE w
        w2 == [w1 EXCEPT !.depth = @ + 1]
    IN  Done([w2 EXCEPT !.frames = Append(@, HighlightFrame(collection, same_line))])

start_collection(w, collection, same_line) ==
    LET w1 == IF w.depth >= 0 THEN write_text(w, <<123, 32>>) ELSE w
        w2 == IF ~same_line THEN [w1 EXCEPT !.depth = @ + 1] ELSE w1
    IN  Done([w2 EXCEPT !.frames = Append(@, HighlightFrame(collection, same_line))])

close_frame_brace_always(w, frame) ==
    LET r1 == IF ~frame.same_line
              THEN LET w1 == new_line([w EXCEPT !.depth = @ - 1])
                   IN  IF w1.depth >= 0 THEN indent(w1) ELSE Done(w1)
              ELSE Done(write_text(w, <<32>>))
    IN  Done(flush_text(write_text(r1.w, <<125>>)))

\* end_collection once the frame is popped: lines 132 to 149.
close_frame(w, frame) ==
    LET r1 == IF ~frame.same_line
              THEN LET w1 == new_line([w EXCEPT !.depth = @ - 1])
                   IN  IF w1.depth >= 0 THEN indent(w1) ELSE Done(w1)
              ELSE Done(write_text(w, <<32>>))
    IN  IF r1.result # "Ok" THEN r1
        ELSE LET w2 == IF r1.w.depth >= 0 THEN write_text(r1.w, <<125>>)
                       ELSE r1.w
             IN  Done(flush_text(w2))

pop(frames) == SubSeq(frames, 1, Len(frames) - 1)

end_collection_ignoring(w) ==
    IF w.frames = <<>> THEN Done(w)
    ELSE close_frame([w EXCEPT !.frames = pop(@)], w.frames[Len(w.frames)])

end_collection(w) ==
    IF w.frames = <<>> THEN Failed(w, "DepthMismatchError")
    ELSE close_frame([w EXCEPT !.frames = pop(@)], w.frames[Len(w.frames)])

begin_object(w, length) == start_collection(w, "Object", FALSE)

\* Writer::write_object_key is the trait's default: the key goes out through
\* the identifier writer.
write_object_key(w, key) == Done(write_nontext(w, "Identifier", key))

write_property(w, key) ==
    LET w1 == IF ~w.started /\ w.has_written_token THEN new_line(w) ELSE w
    IN  IF w1.frames = <<>> THEN Failed(w1, "InvalidState")
        ELSE LET frame == w1.frames[Len(w1.frames)]
             IN  IF frame.collection # "Object" THEN Failed(w1, "InvalidState")
                 ELSE LET r == IF ~frame.same_line /\ w1.started
                               THEN indent(new_line(w1))
                               ELSE Done(w1)
                      IN  IF r.result # "Ok" THEN r
                          ELSE write_object_key([r.w EXCEPT !.started = TRUE], key)

end_object(w) == end_collection(w)

begin_array_inline_upto(w, length) ==
    LET same_line == IF length = <<>> THEN FALSE ELSE length[1] <= 4
    IN  start_collection(w, "Array", same_line)

begin_array(w, length) ==
    LET same_line == IF length = <<>> THEN FALSE ELSE length[1] < 4
    IN  start_collection(w, "Array", same_line)

end_array(w) == end_collection(w)

write_direct(w, string) == Done(write_text(w, string))

write_string(w, string) ==
    Done(write_nontext(w, "String", <<34>> \o string \o <<34>>))

write_identifier(w, string) == Done(write_nontext(w, "Identifier", string))

\* i64::to_string.
fmt_i64(n) == IF n < 0 THEN <<45>> \o fmt_usize(-n) ELSE fmt_usize(n)

\* Date::to_string of clauser: year.month.day.
Date_to_string(date) ==
    fmt_i64(date[1]) \o <<46>> \o fmt_i64(date[2]) \o <<46>> \o fmt_i64(date[3])

write_date(w, date) == Done(write_nontext(w, "Date", Date_to_string(date)))

write_boolean(w, b) ==
    Done(write_nontext(w, "Bool", IF b THEN <<121,101,115>> ELSE <<110,111>>))

write_placeholder(w, placeholder) ==
    Done(write_nontext(w, "Placeholder", <<60>> \o placeholder \o <<62>>))

write_integer(w, number) == Done(write_nontext(w, "Number", fmt_i64(number)))

\* f64::to_string of a number given in tenths: a whole number prints
\* without a fraction.
fmt_f64(tenths) ==
    LET a == IF tenths < 0 THEN -tenths ELSE tenths
        sign == IF tenths < 0 THEN <<45>> ELSE <<>>
    IN  IF a % 10 = 0 THEN sign \o fmt_usize(a \div 10)
        ELSE sign \o fmt_usize(a \div 10) \o <<46>> \o fmt_usize(a % 10)

write_decimal(w, number) == Done(write_nontext(w, "Number", fmt_f64(number)))

Operator_text(operator) ==
    CASE operator = "GreaterThan" -> <<62>>
      [] operator = "GreaterThanEq" -> <<62, 61>>
      [] operator = "LessThan" -> <<60>>
      [] operator = "LessThanEq" -> <<60, 61>>

write_operator(w, operator) ==
    Done(write_nontext(w, "Operator", Operator_text(operator)))

write_comment(w, comment) ==
    LET r == IF w.has_written_token THEN indent(new_line(w)) ELSE Done(w)
    IN  IF r.result # "Ok" THEN r
        ELSE Done(write_nontext(r.w, "Comment", <<35, 32>> \o comment))

write_value(w, val) == write_direct(w, val)

\* ValueOwned::write, as the Writer calls the value makes, in order: the
\* first call that fails ends it.
Writer_call(w, call) ==
    CASE call.event = "begin_object" -> begin_object(w, call.arg)
      [] call.event = "begin_array" -> begin_array(w, call.arg)
      [] call.event = "end_object" -> end_object(w)
      [] call.event = "end_array" -> end_array(w)
      [] call.event = "write_property" -> write_property(w, call.arg)
      [] call.event = "write_integer" -> write_integer(w, call.arg)
      [] call.event = "write_comment" -> write_comment(w, call.arg)
      [] call.event = "write_value" -> write_value(w, call.arg)

RECURSIVE Value_write(_, _)
\* The rest of the value after a call that returned r.
Value_rest(r, calls) ==
    IF r.result # "Ok" THEN r ELSE Value_write(r.w, calls)

Value_write(w, calls) ==
    IF calls = <<>> THEN Done(w)
    ELSE Value_rest(Writer_call(w, Head(calls)), Tail(calls))

(***************************************************************************)
(* DocStringSer (util/mod.rs)                                              *)
(*                                                                         *)
(* The html string is the sequence of the pieces pushed onto it.           *)
(***************************************************************************)
Piece(kind, text) == [kind |-> kind, text |-> text]

\* The pushes of a writer, as pieces of the html string.
Pieces(output) == [i \in DOMAIN output |-> Piece(output[i].token, output[i].text)]

\* SyntaxHighlighter::to_html after code.write returned r: the closing tag
\* is pushed when the writer did not fail.
highlight_end(s, r) ==
    IF r.result # "Ok" THEN [s |-> s \o Pieces(r.w.output), result |-> r.result]
    ELSE [s |-> Append(s \o Pieces(r.w.output), Piece("</div>", <<>>)),
          result |-> "Ok"]

\* SyntaxHighlighter::to_html: the writer pushes onto the same string.
SyntaxHighlighter_to_html(s, code) ==
    highlight_end(Append(s, Piece("<div class=\"pd-highlight\">", <<>>)),
                  Value_write(HighlightedWriter_new, code))

Pushed(s, in_para, piece) == [s |-> Append(s, piece), in_para |-> in_para, result |-> "Ok"]
Highlighted(r, in_para) == [s |-> r.s, in_para |-> in_para, result |-> r.result]

\* The second match of segment_to_html: what the segment pushes.
segment_push(s, in_para, segment) ==
    CASE segment.kind = "Text" -> Pushed(s, in_para, Piece("Text", segment.contents))
      [] segment.kind = "Code" ->
           Highlighted(SyntaxHighlighter_to_html(s, segment.contents), in_para)
      [] segment.kind = "RawCode" ->
           Pushed(s, FALSE, Piece("<div class=\"pd-raw-code\">", segment.contents))
      [] segment.kind = "Symbol" ->
           Pushed(s, in_para, Piece("<span class=\"pd-symbol-missing\">",
                                    html_escape(segment.contents)))
      [] segment.kind = "Concept" ->
           Pushed(s, in_para, Piece("<span class=\"pd-concept-missing\">",
                                    html_escape(segment.contents)))
      [] segment.kind = "Link" ->
           Pushed(s, in_para,
                  Piece("<a>", segment.url \o <<34, 62>> \o segment.contents))

\* DocStringSer::segment_to_html on the string s and the flag in_para: the
\* first match closes the paragraph in front of a code block and opens one
\* in front of anything else.
segment_to_html(s, in_para, segment) ==
    IF segment.kind \in {"Code", "RawCode"}
    THEN segment_push(IF in_para THEN Append(s, Piece("</p>", <<>>)) ELSE s,
                      FALSE, segment)
    ELSE segment_push(IF ~in_para THEN Append(s, Piece("<p>", <<>>)) ELSE s,
                      TRUE, segment)

\* The loop of DocStringSer::to_html from segment i on.
RECURSIVE to_html_from(_, _, _, _)
to_html_next(segments, i, r) ==
    IF r.result # "Ok" THEN r
    ELSE to_html_from(segments, i + 1, r.s, r.in_para)

to_html_from(segments, i, s, in_para) ==
    IF i > Len(segments) THEN [s |-> s, in_para |-> in_para, result |-> "Ok"]
    ELSE to_html_next(segments, i, segment_to_html(s, in_para, segments[i]))

\* DocStringSer::to_html.
DocStringSer_to_html(segments) == to_html_from(segments, 1, <<>>, FALSE)

(***************************************************************************)
(* Bounds and input sets                                                   *)
(***************************************************************************)
MaxBatch == 2       \* entries per add_entries call (registry specification)
MaxEntries == 3     \* entries per registry (registry specification)
MaxItems == 6       \* items handed to paginate (pagination specification)
MaxLimit == 4       \* limit of PaginationMode::Absolute

S_v3 == <<118,51>>      \* "v3"
S_out == <<111,117,116>> \* "out"
Profile1 == [name |-> S_v3, title |-> <<86,51>>]
S_v4 == <<118,52>>      \* "v4"
Profile2 == [name |-> S_v4, title |-> <<86,52>>]

Relative == [scheme |-> "Relative", base_url |-> <<>>]
AbsoluteUrl == [scheme |-> "Absolute", base_url |-> <<47>>]

Config(pagination, use_subfolder, url_scheme) ==
    [profiles |-> <<Profile1>>, url_scheme |-> url_scheme, output_dir |-> S_out,
     use_subfolder_for_single_profile |-> use_subfolder,
     pagination |-> pagination]

\* A configuration with two profiles.
Config2(pagination, url_scheme) ==
    [Config(pagination, FALSE, url_scheme) EXCEPT !.profiles = <<Profile1, Profile2>>]

Effect(name, scopes, targets) ==
    ScriptDocEntry(S_Effects, name, Content("Effects", scopes, targets))
Trigger(name, scopes, targets) ==
    ScriptDocEntry(S_Triggers, name, Content("Triggers", scopes, targets))
Modifier(name, mask) ==
    ScriptDocEntry(S_Modifiers, name, Content("Modifiers", <<mask>>, <<>>))
OnAction(name, scope) ==
    ScriptDocEntry(S_OnActions, name, Content("OnActions", <<scope>>, <<>>))

E_ea == Effect(<<101,97>>, <<1, 2>>, <<>>)          \* "ea"
E_eb == Effect(<<101,98>>, <<1, 1>>, <<1>>)         \* "eb": names "co" twice
E_en == ScriptDocEntry(S_Effects, <<101,110>>, None)  \* "en": no content
E_ta == Trigger(<<116,97>>, <<1>>, <<2>>)           \* "ta"
E_td == Trigger(<<116,100>>, <<1>>, <<5>>)           \* target "zz" is no scope
E_oa == OnAction(<<111,97>>, 1)                     \* "oa": no such category
E_m1 == Modifier(<<109,49>>, 3)
E_m2 == Modifier(<<109,50>>, 3)
E_m3 == Modifier(<<109,51>>, 3)
E_m4 == Modifier(<<109,52>>, 3)
E_m5 == Modifier(<<109,53>>, 3)
E_m6 == Modifier(<<109,54>>, 4)

\* The sequences without repetition over a set, of at most n elements.
RECURSIVE SeqsOver(_, _)
SeqsOver(S, n) ==
    IF n = 0 THEN {<<>>}
    ELSE {<<>>} \cup UNION {{<<x>> \o t : t \in SeqsOver(S \ {x}, n - 1)} : x \in S}

\* The entries of a sequence whose index is in the set, in order.
RECURSIVE Pick(_, _)
Pick(s, idx) ==
    IF s = <<>> THEN <<>>
    ELSE (IF Len(s) \in idx THEN Pick(SubSeq(s, 1, Len(s) - 1), idx) \o <<s[Len(s)]>>
          ELSE Pick(SubSeq(s, 1, Len(s) - 1), idx))

DossierPool == {E_ea, E_eb, E_ta, E_oa, E_m1}
DossierConfigs ==
    {Config(PaginationNone, FALSE, Relative),
     Config(PaginationAbsolute(1), FALSE, Relative)}

\* What the parser hands over: the first k modifiers of mask "tx" and any of
\* the other entries, in file order or in the reverse of it.
TxModifiers == <<E_m1, E_m2, E_m3, E_m4, E_m5>>
SitePool == <<E_m5, E_ea, E_m2, E_m6, E_m1, E_en, E_m4, E_m3>>
SiteBatches ==
    LET picks == {Pick(SitePool,
                       {i \in DOMAIN SitePool :
                           \/ SitePool[i] \in others
                           \/ \E j \in 1..k : SitePool[i] = TxModifiers[j]}) :
                     others \in SUBSET {E_ea, E_en, E_m6},
                     k \in 0..Len(TxModifiers)}
    IN  picks \cup {Reverse(b) : b \in picks}
SiteConfigs ==
    {Config(pg, sub[1], sub[2]) :
        pg \in {PaginationNone, PaginationAbsolute(1), PaginationAbsolute(4)},
        sub \in {<<FALSE, Relative>>, <<TRUE, AbsoluteUrl>>}}

\* The parser's output for a profile of a generated site, and the
\* configurations of a generated site.
GenerateBatches ==
    { <<>>, <<E_td, E_ea>>, <<E_m1, E_td>>, <<E_eb, E_m1, E_ea>> }
GenerateConfigs ==
    { Config2(PaginationNone, Relative), Config2(PaginationAbsolute(1), Relative),
      Config2(PaginationAbsolute(1), AbsoluteUrl),
      Config(PaginationAbsolute(1), FALSE, Relative) }

\* The orders in which the HashMap may yield the categories.
CategoryOrders(d) ==
    LET ids == DOMAIN d.categories
        s == StableSort(SeqOfSet(ids), [c \in ids |-> d.categories[c].name])
    IN  {s, Reverse(s)}

\* The highlighter's inputs.
MaxEvents == 4
MaxDocEvents == 9
MaxFrames == 3
S_k == <<107>>          \* "k"
S_sp == <<32>>          \* " "
S_v == <<118>>          \* "v"
S_c == <<99>>           \* "c"
ArrayLengths == {None, Some(3), Some(4)}
Operators == {"GreaterThan", "GreaterThanEq", "LessThan", "LessThanEq"}
Dates == {<<1836, 1, 1>>}
Numbers == {7}
Decimals == {15, -20}

\* The segments of a DocString.
MaxSegments == 3
Segment(kind, contents, url) == [kind |-> kind, contents |-> contents, url |-> url]
V_number == <<[event |-> "write_integer", arg |-> 7]>>
V_commented == <<[event |-> "write_integer", arg |-> 7],
                 [event |-> "write_comment", arg |-> S_c]>>
SegmentPool ==
    {Segment("Text", S_v, <<>>), Segment("Code", V_number, <<>>),
     Segment("Code", V_commented, <<>>), Segment("RawCode", S_k, <<>>),
     Segment("Symbol", S_c, <<>>), Segment("Concept", S_c, <<>>),
     Segment("Link", S_v, S_k)}

(***************************************************************************)
(* Actions                                                                 *)
(***************************************************************************)
NoCall == [batch |-> <<>>, result |-> "None", at |-> 0]
NoPaginate == [mode |-> PaginationNone, minimum |-> 0, items |-> <<>>, called |-> FALSE]
NoEvent == [event |-> "new", arg |-> None, result |-> "Ok", n |-> 0]
NoDocString == [segments |-> <<>>, html |-> <<>>, in_para |-> FALSE, result |-> "None"]

InitWith(cfgs) ==
    /\ config \in cfgs
    /\ categories = Dossier_new.categories
    /\ entries = Dossier_new.entries
    /\ cross_references = Dossier_new.cross_references
    /\ builders = <<>>
    /\ last_call = NoCall
    /\ added = <<>>
    /\ phase = "entries"
    /\ pages = <<>>
    /\ page_paths = SiteMapper_new.page_paths
    /\ page_groups = SiteMapper_new.page_groups
    /\ groups = SiteMapper_new.groups
    /\ entry_pages = SiteMapper_new.entry_pages
    /\ entry_anchors = SiteMapper_new.entry_anchors
    /\ page_profiles = SiteMapper_new.page_profiles
    /\ profiles = SiteMapper_new.profiles
    /\ pg_in = NoPaginate
    /\ pg_out = <<>>
    /\ site_profiles = <<>>
    /\ written = <<>>
    /\ hw = HighlightedWriter_new
    /\ hw_last = NoEvent
    /\ braces = <<>>
    /\ ds = NoDocString

\* dossier.add_entries(batch): entries the registry does not hold yet.
AddEntries(batch) ==
    /\ phase = "entries"
    /\ builders = <<>>
    /\ \A i \in DOMAIN batch : batch[i].id \notin DOMAIN entries
    /\ LET r == add_entries(ThisDossier, batch)
           taken == IF r.result = "Ok" THEN Len(batch) ELSE r.at - 1
       IN  /\ categories' = r.d.categories
           /\ entries' = r.d.entries
           /\ cross_references' = r.d.cross_references
           /\ last_call' = [batch |-> batch, result |-> r.result, at |-> r.at]
           /\ added' = added \o SubSeq(batch, 1, taken)
    /\ UNCHANGED <<config, builders, phase, pages, mapper_vars, pg_vars,
                   gen_vars, util_vars>>

\* The builder main.rs registers next: scopes first, then masks.
NextBuilder ==
    IF builders = <<>> THEN [kind |-> "ScopePage", items |-> Scopes]
    ELSE [kind |-> "MaskPage", items |-> Masks]

\* dossier.add_builder(GenericListPageBuilder::new(items)).
AddBuilder ==
    /\ phase = "entries"
    /\ last_call.result = "Ok"
    /\ Len(builders) < 2
    /\ entries' = insert_all(entries, build_entries(NextBuilder))
    /\ builders' = Append(builders, NextBuilder)
    /\ UNCHANGED <<config, categories, cross_references, last_call, added,
                   phase, pages, mapper_vars, pg_vars, gen_vars, util_vars>>

\* process_profile for the next profile of the loop in main: Dossier::new.
NextProfile ==
    /\ phase = "recorded"
    /\ Len(site_profiles) < Len(config.profiles)
    /\ categories' = Dossier_new.categories
    /\ entries' = Dossier_new.entries
    /\ cross_references' = Dossier_new.cross_references
    /\ builders' = <<>>
    /\ last_call' = NoCall
    /\ added' = <<>>
    /\ phase' = "entries"
    /\ UNCHANGED <<config, pages, mapper_vars, pg_vars, gen_vars, util_vars>>

\* generator.add_profile for the profile the loop in main is at:
\* SiteProfile::new builds the pages, record_profile indexes them, and the
\* profile joins generator.profiles.
AddProfile(cat_order, reversed) ==
    /\ phase = "entries"
    /\ Len(builders) = 2
    /\ LET profile == config.profiles[Len(site_profiles) + 1]
           made == create_pages(ThisDossier, config, builders, cat_order)
           pgs == IF reversed THEN Reverse(made) ELSE made
           m == record_profile(ThisMapper, config, profile, ThisDossier, pgs)
       IN  /\ pages' = pgs
           /\ page_paths' = m.page_paths
           /\ page_groups' = m.page_groups
           /\ groups' = m.groups
           /\ entry_pages' = m.entry_pages
           /\ entry_anchors' = m.entry_anchors
           /\ page_profiles' = m.page_profiles
           /\ profiles' = m.profiles
           /\ site_profiles' = Append(site_profiles,
                    [profile |-> profile, dossier |-> ThisDossier, pages |-> pgs])
    /\ phase' = "recorded"
    /\ UNCHANGED <<config, dossier_vars, pg_vars, written, util_vars>>

\* One turn of the render loop of SiteGenerator::generate: page.data(), the
\* lookup of the page's recorded path and fs::write.  A failed unwrap aborts
\* the run.
Render ==
    /\ phase \in {"recorded", "rendering"}
    /\ loop_done(config, site_profiles)
    /\ Len(written) < total_pages(site_profiles)
    /\ LET t == render_target(site_profiles, 1, Len(written) + 1)
           sp == site_profiles[t.profile]
           page == sp.pages[t.page]
       IN  IF /\ Page_data_ok(sp.dossier, ThisMapper, config, page)
              /\ Page_id(page) \in DOMAIN page_paths
           THEN /\ written' = Append(written,
                        [profile |-> t.profile, page |-> t.page,
                         disk |-> page_paths[Page_id(page)].disk,
                         data |-> Page_data(sp.dossier, ThisMapper, config, page)])
                /\ phase' = "rendering"
           ELSE /\ written' = written
                /\ phase' = "aborted"
    /\ UNCHANGED <<config, dossier_vars, pages, mapper_vars, pg_vars,
                   site_profiles, util_vars>>

\* util::paginate on a list of n items.
Paginate(mode, minimum, n) ==
    /\ pg_in' = [mode |-> mode, minimum |-> minimum, items |-> [i \in 1..n |-> i],
                 called |-> TRUE]
    /\ pg_out' = paginate(mode, minimum, [i \in 1..n |-> i])
    /\ UNCHANGED <<config, dossier_vars, phase, pages, mapper_vars, gen_vars,
                   util_vars>>

\* One call of a Writer method on the HighlightedWriter: the writer keeps
\* what the method did to it, also when the method returns an Err.
Event(event, arg, r) ==
    /\ hw' = r.w
    /\ hw_last' = [event |-> event, arg |-> arg, result |-> r.result,
                   n |-> hw_last.n + 1]
    /\ braces' = IF Len(r.w.frames) > Len(hw.frames)
                 THEN Append(braces, r.w.current_text # hw.current_text)
                 ELSE SubSeq(braces, 1, Len(r.w.frames))
    /\ UNCHANGED <<config, dossier_vars, phase, pages, mapper_vars, pg_vars,
                   gen_vars, ds>>

BeginObject(length) == Event("begin_object", length, begin_object(hw, length))
BeginArray(length) == Event("begin_array", length, begin_array(hw, length))
EndObject == Event("end_object", None, end_object(hw))
EndArray == Event("end_array", None, end_array(hw))
WriteProperty(key) == Event("write_property", key, write_property(hw, key))
WriteDirect(string) == Event("write_direct", string, write_direct(hw, string))
WriteValue(val) == Event("write_value", val, write_value(hw, val))
WriteString(string) == Event("write_string", string, write_string(hw, string))
WriteIdentifier(string) == Event("write_identifier", string, write_identifier(hw, string))
WriteDate(date) == Event("write_date", date, write_date(hw, date))
WriteBoolean(b) == Event("write_boolean", b, write_boolean(hw, b))
WritePlaceholder(placeholder) ==
    Event("write_placeholder", placeholder, write_placeholder(hw, placeholder))
WriteInteger(number) == Event("write_integer", number, write_integer(hw, number))
WriteDecimal(number) == Event("write_decimal", number, write_decimal(hw, number))
WriteOperator(operator) == Event("write_operator", operator, write_operator(hw, operator))
WriteComment(comment) == Event("write_comment", comment, write_comment(hw, comment))


\* DocStringSer::to_html on a DocString of the given segments.
Returned(segments, r) ==
    [segments |-> segments, html |-> r.s, in_para |-> r.in_para,
     result |-> r.result]

ToHtml(segments) ==
    /\ ds' = Returned(segments, DocStringSer_to_html(segments))
    /\ UNCHANGED <<config, dossier_vars, phase, pages, mapper_vars, pg_vars,
                   gen_vars, hw_vars>>

(***************************************************************************)
(* Specifications                                                          *)
(***************************************************************************)
\* The driver: one profile from the parser's output to the recorded mapper.
Init == InitWith(SiteConfigs)

Next ==
    \/ \E batch \in SiteBatches : last_call.result = "None" /\ AddEntries(batch)
    \/ AddBuilder
    \/ \E order \in CategoryOrders(ThisDossier), reversed \in BOOLEAN :
          AddProfile(order, reversed)

Spec == Init /\ [][Next]_vars

\* The registry alone: any sequence of add_entries calls, then the builders.
InitDossier == InitWith(DossierConfigs)

NextDossier ==
    \/ \E batch \in SeqsOver(DossierPool, MaxBatch) :
          Len(added) + Len(batch) <= MaxEntries /\ AddEntries(batch)
    \/ AddBuilder
    \/ \E order \in CategoryOrders(ThisDossier) : AddProfile(order, FALSE)

SpecDossier == InitDossier /\ [][NextDossier]_vars

\* The whole run of main: every profile of the configuration is processed
\* and added, then generate() renders the pages.
InitGenerate == InitWith(GenerateConfigs)

NextGenerate ==
    \/ \E batch \in GenerateBatches : last_call.result = "None" /\ AddEntries(batch)
    \/ AddBuilder
    \/ \E order \in CategoryOrders(ThisDossier) :
          order = StableSort(order, [c \in DOMAIN categories |-> categories[c].name])
          /\ AddProfile(order, FALSE)
    \/ NextProfile
    \/ Render

SpecGenerate == InitGenerate /\ [][NextGenerate]_vars

\* paginate alone.
InitPaginate == InitWith({Config(PaginationNone, FALSE, Relative)})

NextPaginate ==
    \E n \in 0..MaxItems, minimum \in 0..(MaskMinItems + 1),
       mode \in {PaginationNone} \cup {PaginationAbsolute(l) : l \in 1..MaxLimit} :
        Paginate(mode, minimum, n)

SpecPaginate == InitPaginate /\ [][NextPaginate]_vars

\* The highlighter under any sequence of Writer calls, failing ones too.
InitWriter == InitWith({Config(PaginationNone, FALSE, Relative)})

MoreEvents == hw_last.n < MaxEvents

NextWriter ==
    \/ \E length \in ArrayLengths : MoreEvents /\ BeginObject(length)
    \/ \E length \in ArrayLengths : MoreEvents /\ BeginArray(length)
    \/ MoreEvents /\ EndObject
    \/ MoreEvents /\ EndArray
    \/ MoreEvents /\ WriteProperty(S_k)
    \/ MoreEvents /\ WriteDirect(S_sp)
    \/ MoreEvents /\ WriteValue(S_v)
    \/ MoreEvents /\ WriteString(S_v)
    \/ MoreEvents /\ WriteIdentifier(S_v)
    \/ \E date \in Dates : MoreEvents /\ WriteDate(date)
    \/ \E b \in BOOLEAN : MoreEvents /\ WriteBoolean(b)
    \/ MoreEvents /\ WritePlaceholder(S_v)
    \/ \E number \in Numbers : MoreEvents /\ WriteInteger(number)
    \/ \E number \in Decimals : MoreEvents /\ WriteDecimal(number)
    \/ \E operator \in Operators : MoreEvents /\ WriteOperator(operator)
    \/ MoreEvents /\ WriteComment(S_c)

SpecWriter == InitWriter /\ [][NextWriter]_vars

\* The highlighter under the calls of one well-formed value: a value where
\* one is due (at the start, after a key, in an array), a key in an object,
\* each collection closed by its own end call, nothing after the root.
TopIs(collection) ==
    hw.frames # <<>> /\ hw.frames[Len(hw.frames)].collection = collection
ValueDue ==
    \/ hw_last.n = 0
    \/ TopIs("Object") /\ hw_last.event = "write_property"
    \/ TopIs("Array")
KeyDue == TopIs("Object") /\ hw_last.event # "write_property"
Going == hw_last.n < MaxDocEvents /\ hw_last.result = "Ok"
MayOpen == Going /\ ValueDue /\ Len(hw.frames) < MaxFrames
AfterValue == hw_last.event \in {"write_integer", "end_object", "end_array"}

NextHighlight ==
    \/ MayOpen /\ BeginObject(None)
    \/ \E length \in ArrayLengths : MayOpen /\ BeginArray(length)
    \/ Going /\ KeyDue /\ EndObject
    \/ Going /\ TopIs("Array") /\ EndArray
    \/ Going /\ KeyDue /\ WriteProperty(S_k)
    \/ Going /\ TopIs("Array") /\ AfterValue /\ WriteDirect(S_sp)
    \/ \E number \in Numbers : Going /\ ValueDue /\ WriteInteger(number)

SpecHighlight == InitWriter /\ [][NextHighlight]_vars

\* DocStringSer::to_html on any DocString.
NextDocString == \E segments \in SeqsOver(SegmentPool, MaxSegments) : ToHtml(segments)

SpecDocString == InitWriter /\ [][NextDocString]_vars


(***************************************************************************)
(* Properties of the registry                                              *)
(***************************************************************************)
Count(s, x) == Cardinality({i \in DOMAIN s : s[i] = x})

\* The entry declares a category the registry does not hold.
MissingCategory(e) ==
    category_id(e) # None /\ category_id(e)[1] \notin DOMAIN categories

\* C1: when an entry handed to add_entries declares a category id that is not
\* registered, the call returns an error at the first such entry, and no such
\* entry is in the entry map, in any category's member list, or the source of
\* a recorded cross-reference.
C1_MissingCategoryRejected ==
    \A i \in DOMAIN last_call.batch :
        MissingCategory(last_call.batch[i]) =>
            /\ last_call.result = "Err"
            /\ last_call.at <= i
            /\ MissingCategory(last_call.batch[last_call.at])
            /\ \A j \in 1..(last_call.at - 1) : ~MissingCategory(last_call.batch[j])
            /\ last_call.batch[i].id \notin DOMAIN entries
            /\ \A c \in DOMAIN categories :
                  last_call.batch[i].id \notin RangeOf(categories[c].entries)
            /\ \A k \in DOMAIN cross_references :
                  cross_references[k].from_id # last_call.batch[i].id

\* An add_entries call failed at its second entry, which names a scope.
C1_Witness ==
    /\ last_call.result = "Err"
    /\ last_call.at = 2
    /\ last_call.batch[2].content # None
    /\ Len(added) >= 1

\* The ids an entry's content names, one per mention.
NamedTargets(e) ==
    IF e.content = None THEN <<>>
    ELSE IF e.content[1].variant = "Modifiers"
    THEN <<MaskPage_entry_id_for_name(StringTable[e.content[1].a[1]])>>
    ELSE LET named == e.content[1].a \o e.content[1].b
         IN  [i \in DOMAIN named |-> ScopeDocEntry_id_from_name(StringTable[named[i]])]

TargetIds ==
    {ScopeDocEntry_id_from_name(StringTable[x]) : x \in RangeOf(Scopes)}
    \cup {MaskPage_entry_id_for_name(StringTable[x]) : x \in RangeOf(Masks)}
    \cup {e.id : e \in DossierPool}

\* C4: after any sequence of add_entries calls, find_references_to(id) holds
\* the id of a source entry once per mention of id in that entry's content
\* (a mention twice gives the id twice), and no id of an entry that does not
\* mention id or was not taken in.
C4_FindReferencesExact ==
    \A id \in TargetIds : \A src \in TargetIds :
        Count(find_references_to(ThisDossier, id), src) =
            IF \E i \in DOMAIN added : added[i].id = src
            THEN Count(NamedTargets(CHOOSE e \in DossierPool : e.id = src), id)
            ELSE 0

\* Some target has two referrers, one of them twice.
C4_Witness ==
    \E id \in TargetIds :
        LET refs == find_references_to(ThisDossier, id) IN
        /\ Len(refs) >= 3
        /\ \E i, j \in DOMAIN refs : i # j /\ refs[i] = refs[j]
        /\ \E i, j \in DOMAIN refs : refs[i] # refs[j]


\* The targets the pages collate: the entries a category listing page shows
\* and the entry of every scope page.
CollatedTargets ==
    UNION {RangeOf(pages[i].entries) :
              i \in {j \in DOMAIN pages : pages[j].kind = "CategoryList"}}
    \cup {pages[i].entry_id : i \in {j \in DOMAIN pages : pages[j].kind = "Scope"}}

EdgesTo(target) ==
    {k \in DOMAIN cross_references : cross_references[k].to_id = target}
GroupOf(k) ==
    categories[category_id(entries[cross_references[k].from_id])[1]].display_name
PropertyOf(k) == humanize_camel_case(cross_references[k].from_property)
LinkOf(target, k) ==
    [kind |-> "Link", contents |-> entries[cross_references[k].from_id].name,
     url |-> url_for_entry(ThisMapper, config, target, cross_references[k].from_id)]

StrictlyAscending(names) ==
    \A i, j \in DOMAIN names : i < j => LexLess(names[i], names[j])

\* out is the grouping of the edges to target, sorted on all three levels.
IsReferenceResult(out, target) ==
    /\ StrictlyAscending([g \in DOMAIN out |-> out[g].name])
    /\ {out[g].name : g \in DOMAIN out} = {GroupOf(k) : k \in EdgesTo(target)}
    /\ \A g \in DOMAIN out :
        LET props == out[g].properties
            in_group == {k \in EdgesTo(target) : GroupOf(k) = out[g].name}
        IN  /\ StrictlyAscending([q \in DOMAIN props |-> props[q].name])
            /\ {props[q].name : q \in DOMAIN props} = {PropertyOf(k) : k \in in_group}
            /\ \A q \in DOMAIN props :
                LET body == props[q].body
                    here == {k \in in_group : PropertyOf(k) = props[q].name}
                IN  /\ Len(body) = Cardinality(here)
                    /\ \A i, j \in DOMAIN body :
                          i < j => LexLeq(body[i].contents, body[j].contents)
                    /\ \A k \in here :
                          Count(body, LinkOf(target, k)) =
                              Cardinality({k2 \in here :
                                  LinkOf(target, k2) = LinkOf(target, k)})

\* C2: collate_references(target) is the reference result: exactly the edges
\* with to_id = target, one link per edge under the display name of the
\* source's category and the humanized property name, with group names,
\* property names and link texts each in ascending lexicographic order.
C2_CollateIsReference ==
    phase = "recorded" =>
        \A target \in CollatedTargets :
            IsReferenceResult(
                collate_references(ThisDossier, ThisMapper, config, target), target)

\* A target collated into two groups, one with two properties, one of which
\* holds links of two different texts.
C2_Witness ==
    /\ phase = "recorded"
    /\ \E target \in CollatedTargets :
        LET out == collate_references(ThisDossier, ThisMapper, config, target) IN
        /\ Len(out) >= 2
        /\ \E g \in DOMAIN out :
            /\ Len(out[g].properties) >= 2
            /\ \E q \in DOMAIN out[g].properties :
                LET body == out[g].properties[q].body IN
                \E i, j \in DOMAIN body : body[i].contents # body[j].contents

\* The registry and the recorded mapper a build makes of the entries `seq`
\* handed to add_entries in one call, with the builders of this state.
RebuiltDossier(seq) ==
    LET d == add_entries(Dossier_new, seq).d
        ents[i \in 0..Len(builders)] ==
            IF i = 0 THEN d.entries
            ELSE insert_all(ents[i - 1], build_entries(builders[i]))
    IN  DossierOf(d.categories, ents[Len(builders)], d.cross_references)
RebuiltMapper(d) ==
    record_profile(SiteMapper_new, config, Profile1, d,
        create_pages(d, config, builders, CHOOSE o \in CategoryOrders(d) : TRUE))

\* The entries taken in so far, in the order of their names.
AddedByName == StableSort(added, [e \in RangeOf(added) |-> e.name])

CeilDiv(n, limit) == CHOOSE k \in 0..n : k * limit >= n /\ \A j \in 0..(k - 1) : j * limit < n

\* The chunks of the make_page calls, concatenated in call order.
RECURSIVE Flatten(_)
Flatten(calls) ==
    IF calls = <<>> THEN <<>> ELSE Head(calls).chunk \o Flatten(Tail(calls))

PagesOfKind(kind) == {i \in DOMAIN pages : pages[i].kind = kind}
MaskPagesOf(name) == {i \in PagesOfKind("Mask") : pages[i].name = name}

\* The ids of the modifiers taken in that name the mask.
ModifiersOf(mask) ==
    {added[i].id : i \in {j \in DOMAIN added :
        /\ added[j].content # None
        /\ added[j].content[1].variant = "Modifiers"
        /\ added[j].content[1].a = <<mask>>}}

\* C7: the pages of a mask are numbered 1..k with k >= 1 and hold the
\* modifiers that name it; entries() of page 1 is its chunk and then the
\* mask's entry id, entries() of every later page is its chunk alone.  With
\* 5 modifiers and Absolute(4) (the floor being 4) there are 2 pages: page 1
\* owns 4 modifiers and the mask's entry, page 2 the fifth modifier.
C7_MaskPageOwnership ==
    phase = "recorded" =>
        \A mask \in RangeOf(Masks) :
            LET mine == MaskPagesOf(StringTable[mask])
                mask_id == MaskPage_entry_id_for_name(StringTable[mask])
                k == Cardinality(mine)
            IN  /\ k >= 1
                /\ {pages[i].page.current_page : i \in mine} = 1..k
                /\ UNION {RangeOf(pages[i].entries) : i \in mine} = ModifiersOf(mask)
                /\ \A i \in mine :
                    /\ mask_id \notin RangeOf(pages[i].entries)
                    /\ pages[i].page.current_page = 1 =>
                          Page_entries(pages[i]) = Append(pages[i].entries, mask_id)
                    /\ pages[i].page.current_page > 1 =>
                          Page_entries(pages[i]) = pages[i].entries
                /\ (Cardinality(ModifiersOf(mask)) = 5
                        /\ config.pagination = PaginationAbsolute(4)) =>
                    /\ k = 2
                    /\ \A i \in mine :
                        /\ pages[i].page.current_page = 1 =>
                              Len(Page_entries(pages[i])) = 5
                        /\ pages[i].page.current_page = 2 =>
                              Page_entries(pages[i]) = <<E_m5.id>>

\* Mask "tx" has 5 modifiers under Absolute(4) and is split in two pages.
C7_Witness ==
    /\ phase = "recorded"
    /\ config.pagination = PaginationAbsolute(4)
    /\ Cardinality(ModifiersOf(3)) = 5
    /\ Cardinality(MaskPagesOf(S_tx)) = 2

\* C8: no entry id occurs in entries() of two pages of the profile (or twice
\* in one), so the entry-to-page index record_profile wrote names, for every
\* page, that page as the owner of each of its entries.
C8_OwnershipDisjoint ==
    phase = "recorded" =>
        /\ \A i, j \in DOMAIN pages :
              i # j => RangeOf(Page_entries(pages[i]))
                          \cap RangeOf(Page_entries(pages[j])) = {}
        /\ \A i \in DOMAIN pages :
              LET own == Page_entries(pages[i]) IN
              /\ Cardinality(RangeOf(own)) = Len(own)
              /\ \A e \in RangeOf(own) : entry_pages[e] = Page_id(pages[i])

\* A profile with pages of all four kinds, a split category and a split mask.
C8_Witness ==
    /\ phase = "recorded"
    /\ \E i \in PagesOfKind("CategoryList") : pages[i].page.total_pages > 1
    /\ \E i \in PagesOfKind("Mask") : pages[i].page.total_pages > 1
    /\ PagesOfKind("Scope") # {}
    /\ PagesOfKind("Index") # {}

IsSuffix(suffix, s) ==
    /\ Len(suffix) <= Len(s)
    /\ SubSeq(s, Len(s) - Len(suffix) + 1, Len(s)) = suffix

\* The file of page n of a split category, and a link to an entry on it.
CategoryPageFile(category, n) == category.name \o S__p \o fmt_usize(n) \o <<46>> \o S_html
EntryLink(category, n, e) == CategoryPageFile(category, n) \o <<35>> \o entries[e].name

\* C10: an entry owned by page k > 1 of a split category is linked, from any
\* other recorded entry, by a url that ends in <category>_p<k>.html#<anchor>
\* behind the directory part, not in the file of page 1, in whichever order
\* the pages of the category were recorded.
C10_LinkToLaterPage ==
    phase = "recorded" =>
        \A i \in PagesOfKind("CategoryList") :
            pages[i].page.current_page > 1 =>
                \A e \in RangeOf(pages[i].entries) :
                    \A from \in DOMAIN entry_pages \ {e} :
                        LET url == url_for_entry(ThisMapper, config, from, e)
                            want == EntryLink(pages[i].category,
                                              pages[i].page.current_page, e)
                        IN  /\ \/ url = want
                               \/ IsSuffix(<<47>> \o want, url)
                            /\ ~IsSuffix(EntryLink(pages[i].category, 1, e), url)

\* Page 2 of a split category was recorded before page 1.
C10_Witness ==
    /\ phase = "recorded"
    /\ \E i, j \in PagesOfKind("CategoryList") :
        /\ pages[i].category = pages[j].category
        /\ pages[i].page.current_page = 2
        /\ pages[j].page.current_page = 1
        /\ i < j
        /\ pages[i].entries # <<>>

(***************************************************************************)
(* C11..C20: the generated site                                            *)
(***************************************************************************)
\* Every key of the map `old` is a key of `new`, with the same value.
Preserved(old, new) ==
    \A k \in DOMAIN old : k \in DOMAIN new /\ new[k] = old[k]

IsPrefix(a, b) == Len(a) <= Len(b) /\ SubSeq(b, 1, Len(a)) = a

\* The url path record_profile gives a page of the k-th profile.
RecordedPath(k, page) ==
    LET base == IF Len(config.profiles) > 1 \/ config.use_subfolder_for_single_profile
                THEN config.profiles[k].name ELSE <<>>
    IN  set_extension(path_push(base, Page_info(page).path), S_html)

\* C11: the SiteMapper is append-only across profiles.  No step changes or
\* removes a page-id-to-path, page-id-to-group, entry-to-page or
\* entry-to-anchor mapping, every group list only grows at its end, and after
\* every step each page of each added profile has, under its id, the path
\* recorded for it in its own profile's folder.
C11_AppendOnly ==
    [][ /\ Preserved(page_paths, page_paths')
        /\ Preserved(page_groups, page_groups')
        /\ Preserved(entry_pages, entry_pages')
        /\ Preserved(entry_anchors, entry_anchors')
        /\ \A g \in DOMAIN groups :
              g \in DOMAIN groups' /\ IsPrefix(groups[g], groups'[g])
        /\ \A k \in DOMAIN site_profiles' :
              \A i \in DOMAIN site_profiles'[k].pages :
                 LET page == site_profiles'[k].pages[i] IN
                 /\ Page_id(page) \in DOMAIN page_paths'
                 /\ page_paths'[Page_id(page)].path = RecordedPath(k, page)
      ]_vars

\* Two pages are of one paginated sequence: the category listing pages of one
\* category, or the mask pages of one mask.
SameSequence(p, q) ==
    \/ p.kind = "CategoryList" /\ q.kind = "CategoryList" /\ p.category = q.category
    \/ p.kind = "Mask" /\ q.kind = "Mask" /\ p.entry_id = q.entry_id

\* C12: two pages of one paginated sequence with different page numbers have
\* different ids, and each has its own page-id-to-path record.
C12_PageIdsUnique ==
    \A i \in DOMAIN pages : \A j \in DOMAIN pages :
        ( /\ SameSequence(pages[i], pages[j])
          /\ pages[i].page.current_page # pages[j].page.current_page )
        => /\ Page_id(pages[i]) # Page_id(pages[j])
           /\ Page_id(pages[i]) \in DOMAIN page_paths
           /\ Page_id(pages[j]) \in DOMAIN page_paths
           /\ page_paths[Page_id(pages[i])] # page_paths[Page_id(pages[j])]

\* A recorded profile with a category on several pages and a mask on several
\* pages.
C12_Witness ==
    /\ phase = "recorded"
    /\ \E i \in PagesOfKind("CategoryList") : pages[i].page.total_pages > 1
    /\ \E i \in PagesOfKind("Mask") : pages[i].page.total_pages > 1

\* C13: the pages of one paginated sequence return one group_id(), and a page
\* whose info().pagination is None returns its own id() as group_id().
C13_GroupIds ==
    /\ \A i \in DOMAIN pages : \A j \in DOMAIN pages :
          SameSequence(pages[i], pages[j])
          => Page_group_id(pages[i]) = Page_group_id(pages[j])
    /\ \A i \in DOMAIN pages :
          Page_info(pages[i]).pagination = None
          => Page_group_id(pages[i]) = Page_id(pages[i])

\* C14: indexing strictly precedes rendering.  When a data() call has been
\* made, every profile of the configuration has been added and recorded; a
\* step taken during rendering changes no SiteMapper table; and what every
\* page rendered so far got from the mapper (the urls of its links) is what
\* the same calls return after the step.
C14_IndexingPrecedesRendering ==
    [][ phase' = "rendering" =>
        /\ Len(site_profiles') = Len(config.profiles)
        /\ \A k \in DOMAIN config.profiles :
              hash(config.profiles[k].name) \in DOMAIN profiles'
        /\ phase = "rendering" => UNCHANGED mapper_vars
        /\ \A n \in DOMAIN written' :
              LET w == written'[n]
                  sp == site_profiles'[w.profile]
              IN  w.data = Page_data(sp.dossier, ThisMapper', config, sp.pages[w.page])
      ]_vars

\* Rendering of a site of two profiles is under way, and a rendered page
\* holds a link whose url the mapper resolved.
C14_Witness ==
    /\ phase = "rendering"
    /\ Len(site_profiles) = 2
    /\ Len(written) >= 2
    /\ \E n \in DOMAIN written :
          \E i \in DOMAIN written[n].data.entries :
             \E j \in DOMAIN written[n].data.entries[i].properties :
                written[n].data.entries[i].properties[j].kind = "Link"

\* Following a relative url from a directory: ".." leaves the directory (and
\* stays at the top when there is none to leave), a name enters it.
RECURSIVE Follow(_, _)
Follow(dir, rel) ==
    IF rel = <<>> THEN dir
    ELSE IF Head(rel) = <<46, 46>>
         THEN Follow(IF dir = <<>> THEN dir ELSE SubSeq(dir, 1, Len(dir) - 1),
                     Tail(rel))
    ELSE Follow(Append(dir, Head(rel)), Tail(rel))

\* The number of leading components two directories share.
CommonPrefix(a, b) ==
    CHOOSE n \in 0..Len(a) :
        /\ n <= Len(b)
        /\ SubSeq(a, 1, n) = SubSeq(b, 1, n)
        /\ n < Len(a) /\ n < Len(b) => a[n + 1] # b[n + 1]

RecordedPaths == {page_paths[id].path : id \in DOMAIN page_paths}

\* C15: for recorded page paths A and B, url_from(A, B) is the way from A's
\* directory up to the directory both share, down to B's directory, then B's
\* file name; followed from A's directory it arrives at B, and url_from(B, A)
\* followed from B's directory arrives back at A.  (Looked at whenever a
\* profile has just been recorded: no other step changes the paths.)
C15_RelativeRoundTrip ==
    phase = "recorded" =>
    \A a \in RecordedPaths : \A b \in RecordedPaths :
        LET da == parent_components(a)
            db == parent_components(b)
            n == CommonPrefix(da, db)
        IN  /\ components(url_from(a, b))
                 = [i \in 1..(Len(da) - n) |-> <<46, 46>>]
                   \o SubSeq(db, n + 1, Len(db)) \o <<file_name(b)[1]>>
            /\ Follow(da, components(url_from(a, b))) = components(b)
            /\ Follow(db, components(url_from(b, a))) = components(a)

\* Two recorded pages in different directories, neither the top one.
C15_Witness ==
    phase = "recorded" /\
    \E a \in RecordedPaths : \E b \in RecordedPaths :
        /\ Len(parent_components(a)) >= 2
        /\ Len(parent_components(b)) >= 1
        /\ CommonPrefix(parent_components(a), parent_components(b)) = 0

\* The path of the node fill_from_path ends at for a page: the segments of
\* the page's output path that do not begin with "index.".
NotIndex(seg) == ~(Len(seg) >= 6 /\ SubSeq(seg, 1, 6) = S_index_dot)
NodePath(page) == SelectSeq(components(Page_info(page).path), NotIndex)

\* Page 1 of the sequence a page belongs to.
FirstPageOf(pgs, page) ==
    pgs[CHOOSE i \in DOMAIN pgs :
            SameSequence(pgs[i], page) /\ pgs[i].page.current_page = 1]

\* C16: after SiteMap::from_pages the node reached by the output path of a
\* page that is not split has absolute_url equal to the url path recorded for
\* the page, and the node reached by a page of a sequence of more than one
\* page has absolute_url equal to the url path recorded for page 1 of the
\* sequence.
C16_SiteMapRoundTrip ==
    phase = "recorded" =>
    \A k \in DOMAIN site_profiles :
        LET sp == site_profiles[k]
            t == SiteMap_from_pages(sp)
        IN  \A i \in DOMAIN sp.pages :
                LET page == sp.pages[i]
                    info == Page_info(page)
                    split == info.pagination # None
                             /\ info.pagination[1].total_pages > 1
                    canonical == IF split THEN FirstPageOf(sp.pages, page) ELSE page
                IN  /\ NodePath(page) \in DOMAIN t
                    /\ t[NodePath(page)].absolute_url
                         = page_paths[Page_id(canonical)].path

\* The plain text a dangling reference of the entry e is rendered as.
TextOf(e, j) ==
    [kind |-> "Text", contents |-> StringTable[property_refs(e)[j]], url |-> <<>>]

\* C17: a reference to an id without a registered entry is accepted by
\* add_entries (the call is Ok, the entry is registered and the edge is
\* recorded), and resolving a link to such an id gives a Text segment with the
\* raw name, whatever the SiteMapper holds (also when it holds nothing, so no
\* lookup is made); the pages rendered so far carry that Text, and no render
\* step has aborted.
C17_DanglingDegrades ==
    /\ phase # "aborted"
    /\ last_call.result = "Ok" =>
          \A i \in DOMAIN last_call.batch :
             LET e == last_call.batch[i] IN
             /\ e.id \in DOMAIN entries
             /\ \A j \in DOMAIN property_ids(e) :
                   \E k \in DOMAIN cross_references :
                      /\ cross_references[k].from_id = e.id
                      /\ cross_references[k].to_id = property_ids(e)[j]
    /\ \A k \in DOMAIN site_profiles :
          LET d == site_profiles[k].dossier IN
          \A id \in DOMAIN d.entries :
             \A j \in DOMAIN property_ids(d.entries[id]) :
                property_ids(d.entries[id])[j] \notin DOMAIN d.entries
                => /\ properties(d, ThisMapper, config, d.entries[id])[j]
                        = TextOf(d.entries[id], j)
                   /\ properties(d, SiteMapper_new, config, d.entries[id])[j]
                        = TextOf(d.entries[id], j)
    /\ \A n \in DOMAIN written :
          LET sp == site_profiles[written[n].profile]
              page == sp.pages[written[n].page]
          IN  page.kind = "CategoryList" =>
              \A i \in DOMAIN page.entries :
                 LET e == sp.dossier.entries[page.entries[i]] IN
                 \A j \in DOMAIN property_ids(e) :
                    property_ids(e)[j] \notin DOMAIN sp.dossier.entries
                    => written[n].data.entries[i].properties[j] = TextOf(e, j)

\* A page has been rendered that holds an entry with a reference to an id
\* without an entry.
C17_Witness ==
    \E n \in DOMAIN written :
        LET sp == site_profiles[written[n].profile]
            page == sp.pages[written[n].page]
        IN  /\ page.kind = "CategoryList"
            /\ \E i \in DOMAIN page.entries :
                  LET e == sp.dossier.entries[page.entries[i]] IN
                  \E j \in DOMAIN property_ids(e) :
                     /\ property_ids(e)[j] \notin DOMAIN sp.dossier.entries
                     /\ written[n].data.entries[i].properties[j].kind = "Text"

\* "<name>_p<k>" for a page number of one digit.
NumberedPath(name, k) == name \o <<95, 112, 48 + k>>

\* C18 as stated: page 1 of a split category has the bare category name as
\* path, page k > 1 has <name>_p<k>, and the page of an unsplit category has
\* the bare name.
C18_FirstPageBare ==
    \A i \in PagesOfKind("CategoryList") :
        LET page == pages[i] IN
        Page_info(page).path
            = IF page.page.current_page = 1 THEN page.category.name
              ELSE NumberedPath(page.category.name, page.page.current_page)

\* C18 amended: every page k of a split category, page 1 included, has the
\* path <name>_p<k>, and the page of an unsplit category has the bare name.
C18_CategoryPagePaths ==
    \A i \in PagesOfKind("CategoryList") :
        LET page == pages[i] IN
        /\ page.page.current_page \in 1..9
        /\ Page_info(page).path
             = IF page.page.total_pages = 1 THEN page.category.name
               ELSE NumberedPath(page.category.name, page.page.current_page)

\* A recorded profile with a category split into two pages.
C18_Witness ==
    /\ phase = "recorded"
    /\ \E i \in PagesOfKind("CategoryList") : \E j \in PagesOfKind("CategoryList") :
          /\ pages[i].category = pages[j].category
          /\ pages[i].page.total_pages = 2
          /\ pages[i].page.current_page = 1
          /\ pages[j].page.current_page = 2

\* The paths of the nodes from the root (excluded) down to the node at `at`.
PrefixesOf(at) == {SubSeq(at, 1, n) : n \in 1..Len(at)}

\* C19: SiteMap::from_pages, page by page.  After the n-th page is inserted,
\* no node stands for a segment beginning with "index." and every node is
\* keyed by its segment; a page with such a segment has written its short
\* title, pagination info and canonical url onto the node of the segments
\* before it; the nodes created are those of the page's other segments that
\* did not exist, and the nodes that existed are the same nodes with the
\* page's id added (reused, not replaced).
C19_IndexSegment ==
    phase = "recorded" =>
    \A k \in DOMAIN site_profiles :
        LET sp == site_profiles[k] IN
        \A n \in DOMAIN sp.pages :
            LET before == SiteMap_from_first(sp, n - 1)
                t == SiteMap_from_first(sp, n)
                page == sp.pages[n]
                info == Page_info(page)
                comps == components(info.path)
                at == NodePath(page)
            IN  /\ \A path \in DOMAIN t :
                      path # <<>> =>
                        /\ NotIndex(path[Len(path)])
                        /\ t[path].key = path[Len(path)]
                /\ at # comps =>
                      /\ at = SubSeq(comps, 1, Len(comps) - 1)
                      /\ t[at].title = info.short_title
                      /\ t[at].page = info.pagination
                      /\ t[at].absolute_url = info.path
                /\ DOMAIN t = DOMAIN before \cup PrefixesOf(at)
                /\ \A path \in DOMAIN before :
                      /\ t[path].key = before[path].key
                      /\ IsPrefix(before[path].page_ids, t[path].page_ids)
                /\ \A path \in PrefixesOf(at) \cup {<<>>} :
                      \E i \in DOMAIN t[path].page_ids :
                         t[path].page_ids[i] = Page_id(page)

\* A recorded profile with an index page and, under the same first segment,
\* a mask on several pages.
C19_Witness ==
    /\ phase = "recorded"
    /\ \E i \in PagesOfKind("Index") : Page_info(pages[i]).path = S_modifiers \o S_slash_index_html
    /\ \E i \in PagesOfKind("Mask") : pages[i].page.total_pages > 1

\* The pages of a profile that a page names as its parent.
ParentsOf(sp, page) ==
    {i \in DOMAIN sp.pages :
        Page_parent_id(page) # None /\ Page_id(sp.pages[i]) = Page_parent_id(page)[1]}

\* C20: Breadcrumbs::from_page ends for every page of every profile, because
\* a parent_id names one page of the profile, an index page, which has no
\* parent itself; the crumbs are the crumb of the profile root, then the
\* crumb of the parent if there is one, then the page's own crumb, with the
\* page's short title and, for a split sequence, its pagination.
C20_Breadcrumbs ==
    phase = "recorded" =>
    \A k \in DOMAIN site_profiles :
        LET sp == site_profiles[k] IN
        \A i \in DOMAIN sp.pages :
            LET page == sp.pages[i]
                info == Page_info(page)
                crumbs == Breadcrumbs_from_page(page, sp)
                last == crumbs[Len(crumbs)]
            IN  /\ \A n \in DOMAIN crumbs : crumbs[n].kind # "Panic"
                /\ crumbs[1].kind = "Single"
                /\ crumbs[1].title = sp.profile.title
                /\ crumbs[1].url = S_index
                /\ last.title = info.short_title
                /\ last.kind = "Paged" <=> (info.pagination # None
                                            /\ info.pagination[1].total_pages > 1)
                /\ last.kind = "Paged" => last.page = info.pagination
                /\ Page_parent_id(page) = None => Len(crumbs) = 2
                /\ Page_parent_id(page) # None =>
                      /\ Cardinality(ParentsOf(sp, page)) = 1
                      /\ \A q \in ParentsOf(sp, page) :
                            /\ sp.pages[q].kind = "Index"
                            /\ Page_parent_id(sp.pages[q]) = None
                            /\ Len(crumbs) = 3
                            /\ crumbs[2].kind = "Single"
                            /\ crumbs[2].title = sp.pages[q].title
                            /\ crumbs[2].url = sp.pages[q].path

\* A recorded profile with a scope page and a page of a split mask, both with
\* an index page as parent.
C20_Witness ==
    /\ phase = "recorded"
    /\ \E i \in PagesOfKind("Scope") :
          Len(Breadcrumbs_from_page(pages[i], site_profiles[1])) = 3
    /\ \E i \in PagesOfKind("Mask") :
          /\ pages[i].page.total_pages > 1
          /\ Breadcrumbs_from_page(pages[i], site_profiles[1])[3].kind = "Paged"

(***************************************************************************)
(* C21..C30: the syntax highlighter, the registry, the site map and        *)
(* DocStringSer                                                            *)
(***************************************************************************)
Called(events) == hw_last'.n = hw_last.n + 1 /\ hw_last'.event \in events
Ends == {"end_object", "end_array"}
Spans(output, token) == {i \in DOMAIN output : output[i].token = token}
Brs(output) == Cardinality(Spans(output, "br"))

\* C21: end_object and end_array with no open frame return an error and
\* leave the output, the depth and the frame stack as they were; indent at
\* a negative depth returns an error and writes nothing, so a comment that
\* has to indent there fails too.
C21_FormattingErrors ==
    [][/\ (Called(Ends) /\ hw.frames = <<>>) =>
              /\ hw_last'.result = "DepthMismatchError"
              /\ hw' = hw
       /\ hw.depth < 0 =>
              /\ indent(hw).result = "WriterError"
              /\ indent(hw).w = hw
       /\ (Called({"write_comment"}) /\ hw.depth < 0 /\ hw.has_written_token) =>
              /\ hw_last'.result = "WriterError"
              /\ hw'.depth = hw.depth
              /\ hw'.frames = hw.frames
              /\ Spans(hw'.output, "Comment") = Spans(hw.output, "Comment")
      ]_vars

\* An end call failed on a writer with nothing open, after output was made.
C21_Witness ==
    /\ hw_last.event \in Ends
    /\ hw_last.result = "DepthMismatchError"
    /\ hw.frames = <<>>
    /\ hw.output # <<>>

Top(w) == w.frames[Len(w.frames)]
Spaces(n) == [i \in 1..n |-> 32]
Text(out) == Span("Text", out)
\* What the output holds once the pending text went out as one span.
Flushed(w) ==
    IF w.current_text = <<>> THEN w.output
    ELSE Append(w.output, Text(w.current_text))
Closed == Called(Ends) /\ hw.frames # <<>>

\* C22 as stated: closing a block frame ends the line, goes one level up,
\* indents and writes "}" on the new line; closing an inline frame writes
\* " }" on the same line.
C22_ClosingBrace ==
    [][Closed =>
         IF ~Top(hw).same_line
         THEN /\ hw'.depth = hw.depth - 1
              /\ hw'.output = Flushed(hw) \o
                     <<Br, Text(Spaces(4 * hw'.depth) \o <<125>>)>>
         ELSE /\ hw'.depth = hw.depth
              /\ hw'.output = Append(hw.output, Text(hw.current_text \o <<32, 125>>))
      ]_vars

\* C22, amended: the closing brace is written only when the depth left after
\* the close is not negative, that is when the frame was not opened at depth
\* -1.  Closing a block frame ends the line and takes the depth down; with a
\* depth of 0 or more left it indents to it and writes "}" on the new line.
\* Closing an inline frame writes a space, then "}" under the same
\* condition, and no line break.  Every key after the first key of the
\* document starts a line of its own, indented to the depth.
C22_Closing ==
    [][/\ Closed =>
            IF ~Top(hw).same_line
            THEN /\ hw'.depth = hw.depth - 1
                 /\ hw'.output = Flushed(hw) \o <<Br>> \o
                        (IF hw'.depth >= 0
                         THEN <<Text(Spaces(4 * hw'.depth) \o <<125>>)>>
                         ELSE <<>>)
            ELSE /\ hw'.depth = hw.depth
                 /\ hw'.output = Append(hw.output,
                        Text(hw.current_text \o <<32>> \o
                             (IF hw.depth >= 0 THEN <<125>> ELSE <<>>)))
       /\ (Called({"write_property"}) /\ hw_last'.result = "Ok" /\ hw.started) =>
            hw'.output = Flushed(hw) \o <<Br>> \o
                (IF hw.depth > 0 THEN <<Text(Spaces(4 * hw.depth))>> ELSE <<>>) \o
                <<Span("Identifier", S_k)>>
      ]_vars

\* An object of two properties, opened with its brace inside a block array,
\* was closed: "{ k 7", a line "    k 7", a line "}".
C22_Witness ==
    /\ hw_last.event = "end_object"
    /\ hw.output = <<Text(<<123, 32>>), Span("Identifier", S_k), Span("Number", <<55>>),
                     Br, Text(Spaces(4)), Span("Identifier", S_k), Span("Number", <<55>>),
                     Br, Text(<<125>>)>>

Scalars == {"write_string", "write_identifier", "write_date", "write_boolean",
            "write_integer", "write_decimal", "write_placeholder",
            "write_operator"}
Kept(a, b) == \A i \in DOMAIN a \cap DOMAIN b : a[i] = b[i]

\* C23: the frames below the top never change, so a frame keeps the style it
\* was opened with; begin_array opens an inline frame exactly when a length
\* is declared and below 4, begin_object always a block frame; a scalar or a
\* plain-text write under an inline top frame, and the close of that frame,
\* emit no line break.
C23_InlineDecision ==
    [][/\ Kept(hw.frames, hw'.frames)
       /\ Called({"begin_array"}) =>
             /\ Len(hw'.frames) = Len(hw.frames) + 1
             /\ Top(hw').collection = "Array"
             /\ Top(hw').same_line <=>
                   (hw_last'.arg # None /\ hw_last'.arg[1] < 4)
       /\ Called({"begin_object"}) =>
             /\ Len(hw'.frames) = Len(hw.frames) + 1
             /\ Top(hw') = HighlightFrame("Object", FALSE)
       /\ (/\ Called(Scalars \cup Ends \cup {"write_direct", "write_value"})
           /\ hw.frames # <<>>
           /\ Top(hw).same_line) =>
             Brs(hw'.output) = Brs(hw.output)
      ]_vars

\* An array declared with 3 items, opened with its brace, was closed after
\* three numbers with a space between them: "{ 7 7 7 }" and no line break.
C23_Witness ==
    /\ hw_last.event = "end_array"
    /\ hw.output = <<Text(<<123, 32>>), Span("Number", <<55>>), Text(<<32>>),
                     Span("Number", <<55>>), Text(<<32>>), Span("Number", <<55>>),
                     Text(<<32, 125>>)>>

\* The text a scalar call hands to write_nontext.
TokenOf(event, arg) ==
    CASE event = "write_string" -> Span("String", <<34>> \o arg \o <<34>>)
      [] event = "write_identifier" -> Span("Identifier", arg)
      [] event = "write_date" -> Span("Date", Date_to_string(arg))
      [] event = "write_boolean" ->
            Span("Bool", IF arg THEN <<121,101,115>> ELSE <<110,111>>)
      [] event = "write_integer" -> Span("Number", fmt_i64(arg))
      [] event = "write_decimal" -> Span("Number", fmt_f64(arg))
      [] event = "write_placeholder" -> Span("Placeholder", <<60>> \o arg \o <<62>>)
      [] event = "write_operator" -> Span("Operator", Operator_text(arg))
      [] event = "write_comment" -> Span("Comment", <<35, 32>> \o arg)

\* C24: a plain-text write only grows the buffer and emits nothing; a scalar
\* call emits the pending text as one Text span, then its own span, nothing
\* else; a comment's span is the last thing emitted, after the pending text;
\* the buffer is empty after every non-text call, after every call that
\* ended on a line break and after every close of a collection.
C24_TextBuffering ==
    [][/\ Called({"write_direct", "write_value"}) =>
             /\ hw'.output = hw.output
             /\ hw'.current_text = hw.current_text \o hw_last'.arg
       /\ Called(Scalars) =>
             /\ hw'.output = Append(Flushed(hw), TokenOf(hw_last'.event, hw_last'.arg))
             /\ hw'.current_text = <<>>
       /\ Called({"write_comment"}) =>
             /\ hw'.current_text = <<>>
             /\ Kept(Flushed(hw), hw'.output)
             /\ Len(hw'.output) >= Len(Flushed(hw))
             /\ hw_last'.result = "Ok" =>
                   hw'.output[Len(hw'.output)] = TokenOf("write_comment", hw_last'.arg)
       /\ (hw'.output # hw.output /\ hw'.output[Len(hw'.output)] = Br) =>
             hw'.current_text = <<>>
       /\ (Closed /\ hw_last'.result = "Ok") => hw'.current_text = <<>>
       /\ \A i \in DOMAIN hw'.output :
             hw'.output[i].token = "Text" => hw'.output[i].text # <<>>
      ]_vars

\* Two plain-text writes in a row went out as the one span "  " in front of
\* the span of the number written after them.
C24_Witness ==
    /\ hw_last.event = "write_integer"
    /\ Len(hw.output) >= 2
    /\ hw.output[Len(hw.output) - 1] = Text(<<32, 32>>)
    /\ hw.current_text = <<>>

\* C25: a comment written once a token is out succeeds and its span comes
\* right after a line break and the indentation to the depth; the comment
\* that is the first token has no line break in front of it.
C25_Comments ==
    [][Called({"write_comment"}) =>
         /\ hw_last'.result = "Ok"
         /\ hw'.output = Flushed(hw) \o
                (IF hw.has_written_token THEN <<Br>> ELSE <<>>) \o
                (IF hw.has_written_token /\ hw.depth > 0
                 THEN <<Text(Spaces(4 * hw.depth))>> ELSE <<>>) \o
                <<TokenOf("write_comment", hw_last'.arg)>>
      ]_vars

\* The same with the depth not negative: there the code does it.
C25_CommentsInBlock ==
    [][(Called({"write_comment"}) /\ (hw.depth >= 0 \/ ~hw.has_written_token)) =>
         /\ hw_last'.result = "Ok"
         /\ hw'.output = Flushed(hw) \o
                (IF hw.has_written_token THEN <<Br>> ELSE <<>>) \o
                (IF hw.has_written_token /\ hw.depth > 0
                 THEN <<Text(Spaces(4 * hw.depth))>> ELSE <<>>) \o
                <<TokenOf("write_comment", hw_last'.arg)>>
      ]_vars

BlockFrames(w) == {i \in DOMAIN w.frames : ~w.frames[i].same_line}

\* C26: after any calls, failed ones included, the depth is the number of
\* open block frames minus 1, so it is -1 exactly when no block frame is
\* open, and it is never below -1.
C26_DepthInvariant ==
    /\ hw.depth = Cardinality(BlockFrames(hw)) - 1
    /\ hw.depth >= -1
    /\ hw.depth = -1 <=> BlockFrames(hw) = {}

\* A call failed with two block frames and an inline frame open.
C26_Witness ==
    /\ hw_last.result # "Ok"
    /\ Len(hw.frames) = 3
    /\ Cardinality(BlockFrames(hw)) = 2
    /\ hw.depth = 1

Occurs(text, c) == Cardinality({i \in DOMAIN text : text[i] = c})
RECURSIVE OccursIn(_, _)
OccursIn(output, c) ==
    IF output = <<>> THEN 0
    ELSE Occurs(Head(output).text, c) + OccursIn(Tail(output), c)
\* The braces written so far, emitted or still in the text buffer.
Opening(w) == OccursIn(w.output, 123) + Occurs(w.current_text, 123)
Closing(w) == OccursIn(w.output, 125) + Occurs(w.current_text, 125)
Braced(b) == Cardinality({i \in DOMAIN b : b[i]})
Begins == {"begin_object", "begin_array"}

\* C29: in a well-nested sequence of calls every begin writes one opening
\* brace when the depth is 0 or more and none at depth -1, every end writes
\* one closing brace when the frame it closes wrote its opening brace and
\* none otherwise; so the opening braces written exceed the closing ones by
\* the number of open frames that wrote theirs, and are as many once every
\* collection is closed.
C29_BraceBalance ==
    [][/\ Called(Begins) =>
             /\ Opening(hw') - Opening(hw) = (IF hw.depth >= 0 THEN 1 ELSE 0)
             /\ Closing(hw') = Closing(hw)
             /\ braces'[Len(braces')] = (hw.depth >= 0)
       /\ Closed =>
             /\ Closing(hw') - Closing(hw) =
                   (IF braces[Len(braces)] THEN 1 ELSE 0)
             /\ Opening(hw') = Opening(hw)
       /\ Len(braces') = Len(hw'.frames)
       /\ Opening(hw') - Closing(hw') = Braced(braces')
       /\ hw'.frames = <<>> => Opening(hw') = Closing(hw')
      ]_vars

\* All collections are closed again and two of them wrote their braces.
C29_Witness ==
    /\ hw_last.event \in Ends
    /\ hw.frames = <<>>
    /\ Opening(hw) = 2
    /\ Closing(hw) = 2

EdgesFrom(id) == {k \in DOMAIN cross_references : cross_references[k].from_id = id}

\* C27: after any add_entries calls, failed ones included, every member id
\* of a category and every from_id of a cross-reference is the id of a
\* registered entry, and every entry taken in before a failure is still
\* registered, a member of its category and the source of its edges.
C27_RegistryWellFormed ==
    /\ \A c \in DOMAIN categories :
          RangeOf(categories[c].entries) \subseteq DOMAIN entries
    /\ \A k \in DOMAIN cross_references :
          cross_references[k].from_id \in DOMAIN entries
    /\ \A i \in DOMAIN added :
          /\ added[i].id \in DOMAIN entries
          /\ entries[added[i].id] = added[i]
          /\ category_id(added[i]) # None =>
                added[i].id \in RangeOf(categories[category_id(added[i])[1]].entries)
          /\ Cardinality(EdgesFrom(added[i].id)) >= Len(NamedTargets(added[i]))

\* After an earlier call that took an entry in, a call failed at its second
\* entry; the first one had a category and named scopes.
C27_Witness ==
    /\ last_call.result = "Err"
    /\ last_call.at = 2
    /\ Len(added) >= 2
    /\ category_id(last_call.batch[1]) # None
    /\ NamedTargets(last_call.batch[1]) # <<>>
    /\ cross_references # <<>>

Passes(path, page) == IsPrefix(path, NodePath(page))

\* C28: after SiteMap::from_pages every node lists the id of each page whose
\* path passes through or ends at the node exactly once, and no other id.
C28_PageIdsOnce ==
    phase = "recorded" =>
    \A k \in DOMAIN site_profiles :
        LET sp == site_profiles[k]
            t == SiteMap_from_pages(sp)
        IN  \A path \in DOMAIN t : \A i \in DOMAIN sp.pages :
                Count(t[path].page_ids, Page_id(sp.pages[i])) =
                    IF Passes(path, sp.pages[i]) THEN 1 ELSE 0

\* What the code does keep: a node lists the ids of the pages that pass
\* through it and no other id, and the root lists each page once.
C28_PageIdsAsSet ==
    phase = "recorded" =>
    \A k \in DOMAIN site_profiles :
        LET sp == site_profiles[k]
            t == SiteMap_from_pages(sp)
        IN  \A path \in DOMAIN t : \A i \in DOMAIN sp.pages :
                LET n == Count(t[path].page_ids, Page_id(sp.pages[i]))
                IN  IF ~Passes(path, sp.pages[i]) THEN n = 0
                    ELSE IF path = <<>> THEN n = 1
                    ELSE n >= 1

PiecesOf(html, kinds) == {i \in DOMAIN html : html[i].kind \in kinds}
\* A paragraph is open in front of piece i: more "<p>" than "</p>" before it.
InParagraph(html, i) ==
    Cardinality({j \in PiecesOf(html, {"<p>"}) : j < i})
        > Cardinality({j \in PiecesOf(html, {"</p>"}) : j < i})
CodeBlocks == {"<div class=\"pd-highlight\">", "<div class=\"pd-raw-code\">"}

\* C30: in the html to_html returns, no Code or RawCode block stands in an
\* open paragraph, and every "<p>" has its "</p>": there are as many of the
\* one as of the other and no paragraph is open at the end.
C30_Paragraphs ==
    ds.result = "Ok" =>
        /\ \A i \in PiecesOf(ds.html, CodeBlocks) : ~InParagraph(ds.html, i)
        /\ ~InParagraph(ds.html, Len(ds.html) + 1)
        /\ Cardinality(PiecesOf(ds.html, {"<p>"}))
              = Cardinality(PiecesOf(ds.html, {"</p>"}))

\* The part the code keeps: code blocks stand outside paragraphs, paragraphs
\* do not nest, and the one left open at the end is the one the flag tells.
C30_CodeOutsideParagraph ==
    ds.result = "Ok" =>
        /\ \A i \in PiecesOf(ds.html, CodeBlocks) : ~InParagraph(ds.html, i)
        /\ \A i \in PiecesOf(ds.html, {"<p>"}) : ~InParagraph(ds.html, i)
        /\ \A i \in PiecesOf(ds.html, {"</p>"}) : InParagraph(ds.html, i)
        /\ ds.in_para <=> InParagraph(ds.html, Len(ds.html) + 1)
        /\ ds.in_para <=> (ds.segments # <<>> /\
              ds.segments[Len(ds.segments)].kind \notin {"Code", "RawCode"})
====
